---------------------------- MODULE Spec2Model ----------------------------
(***************************************************************************)
(* A model of the Battle City repository.  The repository holds two        *)
(* implementations of the same game:                                       *)
(*                                                                         *)
(*   - the tile-grid game: src/game.py, src/tank.py, src/sprites.py,       *)
(*     src/constants.py (time is read from the millisecond clock);         *)
(*   - the sprite-group game: src/BattleCityNES/game.py, src/level.py,     *)
(*     src/tanks.py, src/BattleCityNES/sprites.py,                         *)
(*     src/BattleCityNES/constants.py (time is counted in frames).         *)
(*                                                                         *)
(* The variable `variant` says which of the two programs a behaviour is a  *)
(* run of ("grid" or "nes"); the definitions of the second carry the       *)
(* prefix nes_ / NES_ where a name is used by both.                        *)
(*                                                                         *)
(* One frame of the main loop is a sequence of steps; pc is the position   *)
(* of the main loop inside the frame, and every step is enabled at exactly *)
(* one position, so the steps of a frame run in the order of the code.     *)
(*                                                                         *)
(* Positions of the grid game are kept in tenths of a pixel (the enemy     *)
(* speeds 1.5, 0.8 and 0.7 are not integers); pygame.Rect truncates the    *)
(* coordinates it is given, which Trunc models.                            *)
(***************************************************************************)
EXTENDS Integers, Sequences, FiniteSets, TLC

VARIABLES
    variant,            \* which program runs: "grid", "nes", or "load"
    file,               \* levels/level<n>.json as Level.load_level finds it
    pc,                 \* position of the main loop inside a frame
    idx,                \* cursor of the loop the main loop is in
    ticks,              \* frames started so far in this behaviour
    now,                \* pygame.time.get_ticks(), in ms
    state,              \* Game.state
    current_level,      \* Game.current_level
    score,              \* Game.score
    tiles,              \* Level grid: cell -> tile type (absent cells are EMPTY)
    base_destroyed,     \* Level.base_destroyed
    player,             \* Game.player (a PlayerTank)
    enemies,            \* Game.enemies
    bullets,            \* Game.bullets
    explosions,         \* Game.explosions
    power_ups,          \* Game.power_ups
    enemy_spawn_timer,  \* Game.enemy_spawn_timer
    enemies_left,       \* Game.enemies_left
    enemies_on_screen,  \* Game.enemies_on_screen
    enemy_freeze,       \* Game.enemy_freeze
    freeze_timer,       \* Game.freeze_timer
    game,               \* the Game of the sprite-group program
    level,              \* its Level: the sprite groups and the spawn data
    struck,             \* bullet hits each brick cell took in this level
    next_id,            \* identity of the next tank object created
    dead,               \* the tanks destroyed so far, as they were left
    made,               \* power-ups created so far (their identities)
    frame,              \* what happened so far in the current frame
    obs                 \* what the last step did (observation only)

gridVars == <<now, state, current_level, score, tiles, base_destroyed, player,
              enemies, bullets, explosions, power_ups, enemy_spawn_timer,
              enemies_left, enemies_on_screen, enemy_freeze, freeze_timer>>

nesVars == <<game, level>>

vars == <<variant, file, pc, idx, ticks, next_id, dead, made, frame, obs,
          struck, gridVars, nesVars>>

---------------------------------------------------------------------------
(* src/constants.py *)
SCREEN_WIDTH == 640
SCREEN_HEIGHT == 480
FPS == 60
TILE_SIZE == 32
PLAYER_LIVES == 3
LEVEL_COUNT == 3
PLAYER_SPEED == 2
ENEMY_SPEED == 1
BULLET_SPEED == 4
ENEMY_SPAWN_DELAY == 3000
MAX_ENEMIES_ON_SCREEN == 4
MAX_ENEMY_COUNT == 20

UP == 0
RIGHT == 1
DOWN == 2
LEFT == 3

BASIC_TANK == 0
FAST_TANK == 1
POWER_TANK == 2
ARMOR_TANK == 3

EMPTY == 0
BRICK == 1
STEEL == 2
WATER == 3
GRASS == 4
ICE == 5
BASE == 6

MENU == 0
PLAYING == 1
GAME_OVER == 2
VICTORY == 3
PAUSE == 4

SHIELD == 0
FREEZE == 1
EXTRA_LIFE == 2
GRENADE == 3
HELMET == 4
CLOCK == 5
SHOVEL == 6
STAR == 7

---------------------------------------------------------------------------
(* Bounds of the model. *)

\* frames a behaviour runs for
MaxTicks == 2
\* bullets in flight beyond which no tank is asked to fire
MaxBullets == 3

---------------------------------------------------------------------------
(* Pixels and rectangles. *)

\* n pixels in tenths of a pixel
Px(n) == n * 10

\* int(v) for a coordinate v in tenths of a pixel: truncation towards zero
Trunc(v) == IF v >= 0 THEN v \div 10 ELSE -((-v) \div 10)

\* pygame.Rect(x, y, w, h) of coordinates in tenths; w and h are pixels
Rect(x, y, w, h) == [l |-> Trunc(x), t |-> Trunc(y), w |-> w, h |-> h]

\* pygame.Rect.colliderect
colliderect(a, b) ==
    /\ a.l < b.l + b.w
    /\ b.l < a.l + a.w
    /\ a.t < b.t + b.h
    /\ b.t < a.t + a.h

\* the step of a tank facing direction d at speed v
StepDx(d, v) == CASE d = RIGHT -> v [] d = LEFT -> -v [] OTHER -> 0
StepDy(d, v) == CASE d = DOWN -> v [] d = UP -> -v [] OTHER -> 0

\* Tank.get_rect
TankRect(t) == Rect(t.x, t.y, TILE_SIZE, TILE_SIZE)

---------------------------------------------------------------------------
(* The level of the grid game.  Its class is not among the sources: the    *)
(* grid accessors follow the specification (reads outside the grid are     *)
(* Empty, writes outside the grid are ignored).                            *)

LevelWidth == SCREEN_WIDTH \div TILE_SIZE
LevelHeight == SCREEN_HEIGHT \div TILE_SIZE

InGrid(cx, cy) == cx >= 0 /\ cx < LevelWidth /\ cy >= 0 /\ cy < LevelHeight

get_tile(tl, cx, cy) ==
    IF <<cx, cy>> \in DOMAIN tl THEN tl[<<cx, cy>>] ELSE EMPTY

set_tile(tl, cx, cy, v) ==
    IF ~InGrid(cx, cy) THEN tl
    ELSE IF <<cx, cy>> \in DOMAIN tl THEN [tl EXCEPT ![<<cx, cy>>] = v]
    ELSE IF v = EMPTY THEN tl
    ELSE [c \in DOMAIN tl \cup {<<cx, cy>>} |->
             IF c = <<cx, cy>> THEN v ELSE tl[c]]

---------------------------------------------------------------------------
(* Tanks of the grid game (src/tank.py).  The player has identity 0, an    *)
(* enemy the identity it was given when it was created.                    *)

PlayerId == 0

IsSolid(tile) == tile \in {BRICK, STEEL, WATER, BASE}

\* Tank.check_terrain_collision: a cell under the rectangle is outside the
\* grid or solid
check_terrain_collision(rect) ==
    LET tile_x1 == rect.l \div TILE_SIZE
        tile_y1 == rect.t \div TILE_SIZE
        tile_x2 == (rect.l + rect.w - 1) \div TILE_SIZE
        tile_y2 == (rect.t + rect.h - 1) \div TILE_SIZE
    IN \E tile_x \in tile_x1..tile_x2 : \E tile_y \in tile_y1..tile_y2 :
          \/ ~InGrid(tile_x, tile_y)
          \/ IsSolid(get_tile(tiles, tile_x, tile_y))

\* Tank.check_tank_collision for the tank with identity self
check_tank_collision(self, rect) ==
    \/ /\ self # PlayerId
       /\ player.lives > 0
       /\ colliderect(rect, TankRect(player))
    \/ \E i \in 1..Len(enemies) :
          /\ enemies[i].id # self
          /\ colliderect(rect, TankRect(enemies[i]))

\* The facing Tank.move sets from the sign of the request
MoveDirection(t, dx, dy) ==
    IF dx > 0 THEN RIGHT
    ELSE IF dx < 0 THEN LEFT
    ELSE IF dy > 0 THEN DOWN
    ELSE IF dy < 0 THEN UP
    ELSE t.direction

\* The three rejections of Tank.move for the candidate position
MoveRejected(self, new_x, new_y) ==
    \/ new_x < 0
    \/ new_x > Px(SCREEN_WIDTH - TILE_SIZE)
    \/ new_y < 0
    \/ new_y > Px(SCREEN_HEIGHT - TILE_SIZE)
    \/ check_terrain_collision(Rect(new_x, new_y, TILE_SIZE, TILE_SIZE))
    \/ check_tank_collision(self, Rect(new_x, new_y, TILE_SIZE, TILE_SIZE))

\* Tank.move: the tank after the call and the value returned
TankMove(t, dx, dy) ==
    LET t1 == [t EXCEPT !.direction = MoveDirection(t, dx, dy)]
        new_x == t.x + dx * t.speed
        new_y == t.y + dy * t.speed
    IN IF MoveRejected(t.id, new_x, new_y)
       THEN [tank |-> t1, moved |-> FALSE]
       ELSE [tank |-> [t1 EXCEPT !.x = new_x, !.y = new_y], moved |-> TRUE]

\* One call of Tank.move as a step reports it: the candidate position and
\* the value returned
Try(t, dx, dy) ==
    [box |-> <<t.x + dx * t.speed, t.y + dy * t.speed>>,
     moved |-> TankMove(t, dx, dy).moved]

\* The bullet Tank.shoot creates (sprites.py Bullet.__init__)
NewBullet(t) ==
    LET half == Px(TILE_SIZE \div 2)
        full == Px(TILE_SIZE)
    IN [x |-> CASE t.direction = UP -> t.x + half
               [] t.direction = RIGHT -> t.x + full
               [] t.direction = DOWN -> t.x + half
               [] OTHER -> t.x,
        y |-> CASE t.direction = UP -> t.y
               [] t.direction = RIGHT -> t.y + half
               [] t.direction = DOWN -> t.y + full
               [] OTHER -> t.y + half,
        direction |-> t.direction,
        owner |-> t.id,
        power |-> t.power,
        to_remove |-> FALSE]

\* Tank.shoot refuses while the reload time has not passed
CanShoot(t) == now - t.last_shot_time >= t.reload_time

\* the time Tank.shoot still refuses for, in ms
ReloadLeft(t) ==
    IF CanShoot(t) THEN 0 ELSE t.reload_time - (now - t.last_shot_time)

\* the mutant of TankHit: a hit takes two points of health
TankHitTwice(t) ==
    LET h == t.health - 2
    IN IF h <= 0
       THEN IF t.lives - 1 <= 0
            THEN [tank |-> [t EXCEPT !.health = h, !.lives = t.lives - 1],
                  destroyed |-> TRUE]
            ELSE [tank |-> [t EXCEPT !.health = 1, !.lives = t.lives - 1],
                  destroyed |-> FALSE]
       ELSE [tank |-> [t EXCEPT !.health = h], destroyed |-> FALSE]

\* Tank.hit: the tank after the call and the value returned
TankHit(t) ==
    LET h == t.health - 1
    IN IF h <= 0
       THEN IF t.lives - 1 <= 0
            THEN [tank |-> [t EXCEPT !.health = h, !.lives = t.lives - 1],
                  destroyed |-> TRUE]
            ELSE [tank |-> [t EXCEPT !.health = 1, !.lives = t.lives - 1],
                  destroyed |-> FALSE]
       ELSE [tank |-> [t EXCEPT !.health = h], destroyed |-> FALSE]

\* PlayerTank.hit that looks at no shield
PlayerHitAnyway(p) ==
    IF p.invincible \/ p.spawn_protection
    THEN [tank |-> p, destroyed |-> FALSE]
    ELSE TankHit(p)

\* PlayerTank.hit
PlayerHit(p) ==
    IF p.invincible \/ p.shield \/ p.spawn_protection
    THEN [tank |-> p, destroyed |-> FALSE]
    ELSE TankHit(p)

\* PlayerTank.upgrade
PlayerUpgrade(p) ==
    LET lv == IF p.level + 1 < 4 THEN p.level + 1 ELSE 4
    IN [p EXCEPT !.level = lv,
                 !.reload_time = IF lv >= 2 THEN 800 ELSE @,
                 !.power = IF lv >= 3 THEN 2 ELSE @,
                 !.speed = IF lv >= 4 THEN Px(3) ELSE @]

\* PlayerTank.__init__ at position (x, y), in pixels, when the clock reads t
PlayerTankAt(x, y, t) ==
    [id |-> PlayerId, x |-> Px(x), y |-> Px(y), direction |-> UP,
     speed |-> Px(PLAYER_SPEED), reload_time |-> 1000, last_shot_time |-> 0,
     power |-> 1, health |-> 1, lives |-> PLAYER_LIVES, level |-> 1,
     shield |-> FALSE, shield_timer |-> 0,
     invincible |-> FALSE, invincible_timer |-> 0,
     spawn_protection |-> TRUE, spawn_timer |-> t]

NewPlayer(x, y) == PlayerTankAt(x, y, now)

\* EnemyTank.__init__: speed (tenths of a pixel), health, reload time, power
EnemySpeed(tank_type) ==
    CASE tank_type = BASIC_TANK -> Px(ENEMY_SPEED)
      [] tank_type = FAST_TANK -> ENEMY_SPEED * 15
      [] tank_type = POWER_TANK -> ENEMY_SPEED * 8
      [] OTHER -> ENEMY_SPEED * 7

EnemyHealth(tank_type) == IF tank_type = ARMOR_TANK THEN 4 ELSE 1

EnemyReload(tank_type) ==
    CASE tank_type = BASIC_TANK -> 2000
      [] tank_type = FAST_TANK -> 1500
      [] tank_type = POWER_TANK -> 1200
      [] OTHER -> 2000

EnemyPower(tank_type) == IF tank_type = POWER_TANK THEN 2 ELSE 1

\* EnemyTank.__init__ when the clock reads t
EnemyTankAt(id, x, y, tank_type, delay, t) ==
    [id |-> id, x |-> Px(x), y |-> Px(y), direction |-> UP,
     speed |-> EnemySpeed(tank_type), reload_time |-> EnemyReload(tank_type),
     last_shot_time |-> 0, power |-> EnemyPower(tank_type),
     health |-> EnemyHealth(tank_type), lives |-> 1, tank_type |-> tank_type,
     move_timer |-> t, move_delay |-> delay]

NewEnemy(id, x, y, tank_type, delay) == EnemyTankAt(id, x, y, tank_type, delay, now)

---------------------------------------------------------------------------
(* Bullets, explosions and power-ups of the grid game (src/sprites.py).    *)
(* The operators below work on a record w of the objects a bullet can      *)
(* change: tiles, base_destroyed, player, enemies, enemies_on_screen,      *)
(* score, power_ups, explosions, bullets, the tanks destroyed so far       *)
(* (dead) and the observation o.                                           *)

\* What a step reports: nothing happened
NoObs ==
    [step |-> "none", bullet |-> 0, terrain |-> EMPTY, cell |-> <<0, 0>>,
     tank |-> -1, tank_type |-> -1, harmed |-> FALSE, destroyed |-> FALSE,
     points |-> 0, blast |-> "none", pair |-> FALSE, expired |-> FALSE,
     moved |-> FALSE, rejected |-> FALSE, spawned |-> 0,
     won |-> FALSE, lost |-> FALSE, hits |-> 0, gone |-> FALSE,
     asked |-> FALSE, box |-> <<0, 0>>, power |-> 0, removed |-> FALSE,
     from |-> <<0, 0>>, tries |-> <<>>,
     fire |-> FALSE, cooldown |-> 0, shot |-> FALSE,
     item |-> 0, picked |-> FALSE]

\* the value of the variables of the program that is not running
Unused == "unused"

\* What a frame reports when it starts
NoFrame == [base_struck |-> FALSE, player_out |-> FALSE, kills |-> 0]

\* Explosion.__init__
NewExplosion(x, y, size) ==
    [x |-> x, y |-> y, size |-> size, current_frame |-> 0, frame_counter |-> 0]

\* PowerUp.__init__; id is the identity of the object
NewPowerUp(id, x, y, power_type) ==
    [id |-> id, x |-> x, y |-> y, power_type |-> power_type,
     collected |-> FALSE, counter |-> 0]

\* Bullet.get_rect
BulletRect(b) ==
    IF b.direction = UP \/ b.direction = DOWN
    THEN Rect(b.x - Px(2), b.y - Px(4), 4, 8)
    ELSE Rect(b.x - Px(4), b.y - Px(2), 8, 4)

\* The velocity Bullet.__init__ sets, in tenths of a pixel
BulletDx(b) ==
    CASE b.direction = RIGHT -> Px(BULLET_SPEED)
      [] b.direction = LEFT -> -Px(BULLET_SPEED)
      [] OTHER -> 0

BulletDy(b) ==
    CASE b.direction = DOWN -> Px(BULLET_SPEED)
      [] b.direction = UP -> -Px(BULLET_SPEED)
      [] OTHER -> 0

\* a bounds test that leaves out the top and the left edge
BulletOutOfBoundsFar(b) ==
    \/ b.x > Px(SCREEN_WIDTH)
    \/ b.y > Px(SCREEN_HEIGHT)

\* The bounds test of Bullet.update
BulletOutOfBounds(b) ==
    \/ b.x < 0
    \/ b.x > Px(SCREEN_WIDTH)
    \/ b.y < 0
    \/ b.y > Px(SCREEN_HEIGHT)

\* The cells Bullet.check_terrain_collision visits, in its order
ScanCells(tile_x, tile_y) ==
    << <<tile_x - 1, tile_y - 1>>, <<tile_x - 1, tile_y>>, <<tile_x - 1, tile_y + 1>>,
       <<tile_x, tile_y - 1>>, <<tile_x, tile_y>>, <<tile_x, tile_y + 1>>,
       <<tile_x + 1, tile_y - 1>>, <<tile_x + 1, tile_y>>, <<tile_x + 1, tile_y + 1>> >>

TileRect(cx, cy) ==
    [l |-> cx * TILE_SIZE, t |-> cy * TILE_SIZE, w |-> TILE_SIZE, h |-> TILE_SIZE]

\* The tile types that stop a bullet (water is passed through)
StopsBullet(tile) == tile \in {BRICK, STEEL, BASE}

\* the mutant of SteelAfterHit: the power of the bullet is not looked at
SteelStays(power) == STEEL

\* The tile a steel cell becomes when a bullet of this power strikes it
SteelAfterHit(power) == IF power > 1 THEN EMPTY ELSE STEEL

\* The tile a brick cell becomes when a bullet strikes it
BrickAfterHit == EMPTY

\* Game.add_explosion
add_explosion(w, x, y, size) ==
    [w EXCEPT !.explosions = Append(@, NewExplosion(x, y, size))]

\* the bullet hits the brick cell c took so far, and their count set to n
HitsOf(st, c) == IF c \in DOMAIN st THEN st[c] ELSE 0
Counted(st, c, n) == [d \in DOMAIN st \cup {c} |-> IF d = c THEN n ELSE st[d]]

\* Bullet.check_terrain_collision for bullet i of w
BulletTerrain(w, i) ==
    LET b == w.bullets[i]
        rect == BulletRect(b)
        cells == ScanCells(b.x \div Px(TILE_SIZE), b.y \div Px(TILE_SIZE))
        Hit(k) == /\ InGrid(cells[k][1], cells[k][2])
                  /\ colliderect(TileRect(cells[k][1], cells[k][2]), rect)
                  /\ StopsBullet(get_tile(w.tiles, cells[k][1], cells[k][2]))
    IN IF \E k \in 1..9 : Hit(k)
       THEN LET k == CHOOSE k \in 1..9 : Hit(k) /\ \A j \in 1..(k - 1) : ~Hit(j)
                cx == cells[k][1]
                cy == cells[k][2]
                tile == get_tile(w.tiles, cx, cy)
                after == CASE tile = BRICK -> BrickAfterHit
                           [] tile = STEEL -> SteelAfterHit(b.power)
                           [] OTHER -> EMPTY
                n == HitsOf(w.struck, <<cx, cy>>) + 1
                w1 == [w EXCEPT !.tiles = set_tile(@, cx, cy, after),
                                !.base_destroyed = IF tile = BASE THEN TRUE ELSE @,
                                !.bullets[i].to_remove = TRUE,
                                !.struck = IF tile = BRICK
                                           THEN Counted(@, <<cx, cy>>, n) ELSE @,
                                !.o.terrain = tile,
                                !.o.cell = <<cx, cy>>,
                                !.o.hits = IF tile = BRICK THEN n ELSE 0,
                                !.o.gone = (after # tile)]
            IN add_explosion(w1, b.x, b.y, IF tile = BASE THEN "large" ELSE "small")
       ELSE w

\* the mutant of Points: every type is worth what a basic tank is worth
FlatPoints(tank_type) == 100

\* points of Bullet.check_tank_collision
Points(tank_type) ==
    CASE tank_type = BASIC_TANK -> 100
      [] tank_type = FAST_TANK -> 200
      [] tank_type = POWER_TANK -> 300
      [] tank_type = ARMOR_TANK -> 400
      [] OTHER -> 100

\* a sequence without its element k
RemoveAt(s, k) == [j \in 1..(Len(s) - 1) |-> IF j < k THEN s[j] ELSE s[j + 1]]

\* Game.spawn_power_up: roll is -1 when no power-up is drawn, else its type
spawn_power_up(w, x, y, roll) ==
    IF roll < 0 THEN w
    ELSE [w EXCEPT !.power_ups = Append(@, NewPowerUp(w.made + 1, x, y, roll)),
                   !.made = @ + 1]

\* The record kept of a destroyed tank: what it was, the health it was left
\* with, the points added to the score for it and what destroyed it
Death(t, points, by) ==
    [id |-> t.id, tank_type |-> t.tank_type, health |-> t.health,
     x |-> t.x, y |-> t.y, points |-> points, by |-> by]

\* an enemy list that keeps the enemy that was hit and destroyed
EnemiesKept(es, k) == es

\* The enemy list after the enemy at position k was hit and destroyed
EnemiesAfterKill(es, k) == RemoveAt(es, k)

\* Bullet.check_tank_collision for bullet i of w
BulletTank(w, i, roll) ==
    LET b == w.bullets[i]
        rect == BulletRect(b)
        HitsEnemy(k) == /\ b.owner # w.enemies[k].id
                        /\ colliderect(rect, TankRect(w.enemies[k]))
    IN IF /\ b.owner # PlayerId
          /\ w.player.lives > 0
          /\ colliderect(rect, TankRect(w.player))
       THEN LET r == PlayerHit(w.player)
                w1 == [w EXCEPT !.bullets[i].to_remove = TRUE,
                                !.player = r.tank,
                                !.o.tank = PlayerId,
                                !.o.harmed = (r.tank # w.player),
                                !.o.destroyed = r.destroyed,
                                !.o.blast = "large"]
            IN add_explosion(w1, b.x, b.y, "large")
       ELSE IF \E k \in 1..Len(w.enemies) : HitsEnemy(k)
       THEN LET k == CHOOSE k \in 1..Len(w.enemies) :
                         HitsEnemy(k) /\ \A j \in 1..(k - 1) : ~HitsEnemy(j)
                e == w.enemies[k]
                r == TankHit(e)
                size == IF r.tank.health <= 0 THEN "large" ELSE "small"
                w1 == [w EXCEPT !.bullets[i].to_remove = TRUE,
                                !.o.tank = e.id,
                                !.o.tank_type = e.tank_type,
                                !.o.harmed = TRUE,
                                !.o.destroyed = r.destroyed,
                                !.o.blast = size]
                w2 == IF r.destroyed
                      THEN spawn_power_up(
                               [w1 EXCEPT !.enemies = EnemiesAfterKill(@, k),
                                          !.enemies_on_screen = @ - 1,
                                          !.score = @ + Points(e.tank_type),
                                          !.o.points = Points(e.tank_type),
                                          !.dead = Append(@, Death(r.tank,
                                                       Points(e.tank_type), "bullet"))],
                               e.x, e.y, roll)
                      ELSE [w1 EXCEPT !.enemies[k] = r.tank]
            IN add_explosion(w2, b.x, b.y, size)
       ELSE w

\* Bullet.check_bullet_collision for bullet i of w
BulletBullet(w, i) ==
    LET b == w.bullets[i]
        rect == BulletRect(b)
        Hits(k) == /\ k # i
                   /\ ~w.bullets[k].to_remove
                   /\ colliderect(rect, BulletRect(w.bullets[k]))
    IN IF \E k \in 1..Len(w.bullets) : Hits(k)
       THEN LET k == CHOOSE k \in 1..Len(w.bullets) :
                         Hits(k) /\ \A j \in 1..(k - 1) : ~Hits(j)
                w1 == [w EXCEPT !.bullets[i].to_remove = TRUE,
                                !.bullets[k].to_remove = TRUE,
                                !.o.pair = TRUE]
            IN add_explosion(w1, b.x, b.y, "small")
       ELSE w

\* The calls Bullet.update makes once the bullet is inside the bounds
BulletCollisions(w, i, roll) ==
    BulletBullet(BulletTank(BulletTerrain(w, i), i, roll), i)

\* Bullet.update for bullet i of w
BulletUpdate(w, i, roll) ==
    LET b == w.bullets[i]
        b1 == [b EXCEPT !.x = @ + BulletDx(b), !.y = @ + BulletDy(b)]
        w1 == [w EXCEPT !.bullets[i] = b1, !.o.bullet = i, !.o.step = "bullet",
                        !.o.power = b.power]
    IN IF BulletOutOfBounds(b1)
       THEN [w1 EXCEPT !.bullets[i].to_remove = TRUE, !.o.expired = TRUE]
       ELSE BulletCollisions(w1, i, roll)

---------------------------------------------------------------------------
(* The level the grid game loads.  The level files and the Level class of  *)
(* the grid game are not among the sources; the layout below is the data   *)
(* of the model (cells are 32 pixels wide, <<column, row>>):               *)
(*                                                                         *)
(*          col 0   col 1   col 2   col 3   col 4                          *)
(*   row 0    .       .       .       .       .                            *)
(*   row 1  BRICK     .     STEEL     .     WATER                          *)
(*   row 2    .       .       .       .       .                            *)
(*   row 3  GRASS    ICE    BRICK   BASE    BRICK                          *)

LevelTiles ==
    [c \in {<<0, 1>>, <<2, 1>>, <<4, 1>>, <<0, 3>>, <<1, 3>>, <<2, 3>>,
            <<3, 3>>, <<4, 3>>} |->
        CASE c = <<0, 1>> -> BRICK
          [] c = <<2, 1>> -> STEEL
          [] c = <<4, 1>> -> WATER
          [] c = <<0, 3>> -> GRASS
          [] c = <<1, 3>> -> ICE
          [] c = <<3, 3>> -> BASE
          [] OTHER -> BRICK]

\* Level.get_player_start_position, in pixels
PlayerStart == <<32, 64>>

\* Level.get_enemy_spawn_positions, in pixels
EnemySpawnPositions == {<<0, 0>>, <<96, 0>>}

BaseCell == <<3, 3>>

\* Level.get_base_position, in tenths of a pixel: none once the base is gone
get_base_position(tl) ==
    IF get_tile(tl, BaseCell[1], BaseCell[2]) = BASE
    THEN <<Px(BaseCell[1] * TILE_SIZE), Px(BaseCell[2] * TILE_SIZE)>>
    ELSE <<-1, -1>>

\* Level.upgrade_base_walls: the bricks around the base become steel
upgrade_base_walls(tl) ==
    [c \in DOMAIN tl |->
        IF /\ tl[c] = BRICK
           /\ c # BaseCell
           /\ c[1] - BaseCell[1] \in {-1, 0, 1}
           /\ c[2] - BaseCell[2] \in {-1, 0, 1}
        THEN STEEL ELSE tl[c]]

---------------------------------------------------------------------------
(* Power-ups of the grid game (src/sprites.py). *)

\* PowerUp.lifespan
PowerUpLifespan == 600

\* the GRENADE branch of PowerUp.apply_effect
RECURSIVE Grenade(_)
Grenade(w) ==
    IF Len(w.enemies) = 0 THEN w
    ELSE LET e == w.enemies[1]
         IN Grenade([add_explosion(w, e.x, e.y, "large") EXCEPT
                        !.score = @ + 100,
                        !.enemies = Tail(@),
                        !.enemies_on_screen = @ - 1,
                        !.dead = Append(@, Death(e, 100, "grenade"))])

\* PowerUp.apply_effect
apply_effect(w, power_type) ==
    CASE power_type = SHIELD ->
           [w EXCEPT !.player.shield = TRUE, !.player.shield_timer = now]
      [] power_type = FREEZE ->
           [w EXCEPT !.enemy_freeze = TRUE, !.freeze_timer = now]
      [] power_type = EXTRA_LIFE ->
           [w EXCEPT !.player.lives = @ + 1]
      [] power_type = GRENADE -> Grenade(w)
      [] power_type = HELMET ->
           [w EXCEPT !.player.invincible = TRUE, !.player.invincible_timer = now]
      [] power_type = SHOVEL ->
           [w EXCEPT !.tiles = upgrade_base_walls(@)]
      [] power_type = STAR ->
           [w EXCEPT !.player = PlayerUpgrade(@)]
      [] OTHER -> w

\* PowerUp.update for power-up i of w
PowerUpUpdate(w, i) ==
    LET p == [w.power_ups[i] EXCEPT !.counter = @ + 1]
        w1 == [w EXCEPT !.power_ups[i] = p, !.o.step = "power_up",
                        !.o.item = p.id]
    IN IF p.counter >= PowerUpLifespan
       THEN [w1 EXCEPT !.power_ups[i].collected = TRUE, !.o.expired = TRUE]
       ELSE IF /\ w.player.lives > 0
               /\ colliderect(Rect(p.x, p.y, TILE_SIZE, TILE_SIZE),
                              TankRect(w.player))
       THEN [apply_effect([w1 EXCEPT !.power_ups[i].collected = TRUE],
                          p.power_type)
                EXCEPT !.score = @ + 500, !.o.points = 500, !.o.picked = TRUE]
       ELSE w1

---------------------------------------------------------------------------
(* The enemy AI of the grid game (src/tank.py EnemyTank). *)

Abs(n) == IF n < 0 THEN -n ELSE n

\* a move_towards that gives up after one perpendicular move
move_towards_short(e, target, sign, rdir) ==
    LET horizontal == Abs(target[1] - e.x) > Abs(target[2] - e.y)
        dx == IF horizontal THEN (IF target[1] > e.x THEN 1 ELSE -1) ELSE 0
        dy == IF horizontal THEN 0 ELSE (IF target[2] > e.y THEN 1 ELSE -1)
        m1 == TankMove(e, dx, dy)
        m2 == IF dx # 0 THEN TankMove(m1.tank, 0, sign)
              ELSE TankMove(m1.tank, sign, 0)
    IN IF m1.moved THEN m1.tank
       ELSE IF m2.moved THEN m2.tank
       ELSE [m2.tank EXCEPT !.direction = rdir]

\* EnemyTank.move_towards; sign and rdir are the random draws it may make
move_towards(e, target, sign, rdir) ==
    LET horizontal == Abs(target[1] - e.x) > Abs(target[2] - e.y)
        dx == IF horizontal THEN (IF target[1] > e.x THEN 1 ELSE -1) ELSE 0
        dy == IF horizontal THEN 0 ELSE (IF target[2] > e.y THEN 1 ELSE -1)
        m1 == TankMove(e, dx, dy)
        m2 == IF dx # 0 THEN TankMove(m1.tank, 0, sign)
              ELSE TankMove(m1.tank, sign, 0)
        m3 == IF dx # 0 THEN TankMove(m2.tank, 0, -sign)
              ELSE TankMove(m2.tank, -sign, 0)
    IN IF m1.moved THEN m1.tank
       ELSE IF m2.moved THEN m2.tank
       ELSE IF m3.moved THEN m3.tank
       ELSE [m3.tank EXCEPT !.direction = rdir]

\* the calls of Tank.move that EnemyTank.move_towards makes, in their order
TriesTowards(e, target, sign) ==
    LET horizontal == Abs(target[1] - e.x) > Abs(target[2] - e.y)
        dx == IF horizontal THEN (IF target[1] > e.x THEN 1 ELSE -1) ELSE 0
        dy == IF horizontal THEN 0 ELSE (IF target[2] > e.y THEN 1 ELSE -1)
        t1 == Try(e, dx, dy)
        t2 == IF dx # 0 THEN Try(e, 0, sign) ELSE Try(e, sign, 0)
        t3 == IF dx # 0 THEN Try(e, 0, -sign) ELSE Try(e, -sign, 0)
    IN IF t1.moved THEN <<t1>>
       ELSE IF t2.moved THEN <<t1, t2>>
       ELSE <<t1, t2, t3>>

\* the move EnemyTank.update makes in the facing of the tank
MoveAhead(e) ==
    CASE e.direction = UP -> TankMove(e, 0, -1).tank
      [] e.direction = RIGHT -> TankMove(e, 1, 0).tank
      [] e.direction = DOWN -> TankMove(e, 0, 1).tank
      [] OTHER -> TankMove(e, -1, 0).tank

\* EnemyTank.get_target; aim says the 70% draw chose the player, rtarget is
\* the random position of the fallback
get_target(aim, rtarget) ==
    IF player.lives > 0 /\ aim THEN <<player.x, player.y>>
    ELSE IF get_base_position(tiles) # <<-1, -1>> THEN get_base_position(tiles)
    ELSE rtarget

\* the positions the fallback of get_target is drawn from, in tenths
RandomTargets ==
    IF get_base_position(tiles) # <<-1, -1>> THEN {<<0, 0>>}
    ELSE {<<0, 0>>, <<Px(SCREEN_WIDTH - TILE_SIZE), Px(SCREEN_HEIGHT - TILE_SIZE)>>}

\* the random draws of one EnemyTank.update
EnemyDraws(e) ==
    LET shoots == IF Len(bullets) < MaxBullets THEN BOOLEAN ELSE {FALSE}
    IN IF now - e.move_timer > e.move_delay
       THEN [shoot : shoots, retarget : {TRUE}, delay : {500, 2000},
             aim : BOOLEAN, sign : {1, -1}, rdir : {UP, RIGHT, DOWN, LEFT},
             change : {FALSE}, rtarget : RandomTargets]
       ELSE [shoot : shoots, retarget : {FALSE}, delay : {e.move_delay},
             aim : {FALSE}, sign : {1}, rdir : {UP, RIGHT, DOWN, LEFT},
             change : BOOLEAN, rtarget : {<<0, 0>>}]

\* the tank after Tank.shoot
AfterShoot(t, wants) ==
    IF wants /\ CanShoot(t) THEN [t EXCEPT !.last_shot_time = now] ELSE t

\* the bullet list after Tank.shoot
BulletsAfterShoot(bs, t, wants) ==
    IF wants /\ CanShoot(t) THEN Append(bs, NewBullet(t)) ELSE bs

\* the direction of the first Tank.move EnemyTank.update asks for
FirstTry(e, d) ==
    LET target == get_target(d.aim, d.rtarget)
        horizontal == Abs(target[1] - e.x) > Abs(target[2] - e.y)
        facing == IF d.change THEN d.rdir ELSE e.direction
    IN IF d.retarget
       THEN IF horizontal
            THEN <<IF target[1] > e.x THEN 1 ELSE -1, 0>>
            ELSE <<0, IF target[2] > e.y THEN 1 ELSE -1>>
       ELSE <<StepDx(facing, 1), StepDy(facing, 1)>>

\* the calls of Tank.move that EnemyTank.update makes, in their order
EnemyTries(e, d) ==
    IF d.retarget
    THEN TriesTowards(e, get_target(d.aim, d.rtarget), d.sign)
    ELSE <<Try(e, FirstTry(e, d)[1], FirstTry(e, d)[2])>>

\* EnemyTank.update, the tank after it; d holds the random draws
EnemyUpdate(e, d) ==
    LET e1 == AfterShoot(e, d.shoot)
    IN IF d.retarget
       THEN move_towards([e1 EXCEPT !.move_timer = now, !.move_delay = d.delay],
                         get_target(d.aim, d.rtarget), d.sign, d.rdir)
       ELSE MoveAhead(IF d.change THEN [e1 EXCEPT !.direction = d.rdir] ELSE e1)

---------------------------------------------------------------------------
(* The player of the grid game (src/tank.py PlayerTank.update). *)

Keys == {"none", "up", "right", "down", "left"}

\* the timers of PlayerTank.update
PlayerTimers(p) ==
    [p EXCEPT
       !.spawn_protection = IF @ /\ now - p.spawn_timer > 3000 THEN FALSE ELSE @,
       !.shield = IF @ /\ now - p.shield_timer > 10000 THEN FALSE ELSE @,
       !.invincible = IF @ /\ now - p.invincible_timer > 10000 THEN FALSE ELSE @]

\* the direction PlayerTank.update asks Tank.move for, for the key held
KeyDx(key) == CASE key = "right" -> 1 [] key = "left" -> -1 [] OTHER -> 0
KeyDy(key) == CASE key = "down" -> 1 [] key = "up" -> -1 [] OTHER -> 0

\* the move PlayerTank.update makes for the key held
PlayerMove(p, key) ==
    IF key = "none" THEN [tank |-> p, moved |-> FALSE]
    ELSE TankMove(p, KeyDx(key), KeyDy(key))

---------------------------------------------------------------------------
(* The sprite-group game.  src/BattleCityNES/constants.py *)

NES_SCREEN_WIDTH == 480
NES_SCREEN_HEIGHT == 480
NES_TILE_SIZE == 16
MAX_PLAYER_LIVES == 3
NES_PLAYER_SPEED == 2
NES_ENEMY_SPEED == 1
SHOOT_COOLDOWN == 30
NES_BULLET_SPEED == 4
RESPAWN_INVULNERABLE_TIME == 180
POWERUP_DURATION == 600
FREEZE_DURATION == 300
EXPLOSION_DURATION == 30

\* TANK_TYPES: the health, the bullets in flight allowed and the points of
\* a tank type (0 is the player)
TankHealth(type) == IF type = 3 THEN 3 ELSE 1
TankMaxBullets(type) == IF type = 0 \/ type = 4 THEN 2 ELSE 1
TankPoints(type) ==
    CASE type = 1 -> 100
      [] type = 2 -> 200
      [] type = 3 -> 300
      [] type = 4 -> 400
      [] OTHER -> 0

\* the rect of a sprite whose top left corner is (x, y)
SpriteRect(x, y) == [l |-> x, t |-> y, w |-> NES_TILE_SIZE, h |-> NES_TILE_SIZE]

RectOf(s) == SpriteRect(s.x, s.y)

\* BrickWall.__init__ and SteelWall.__init__; hits counts the damage calls
NewBrickWall(x, y) == [x |-> x, y |-> y, kind |-> BRICK, health |-> 4, hits |-> 0]
NewSteelWall(x, y) == [x |-> x, y |-> y, kind |-> STEEL, health |-> 0, hits |-> 0]

\* the health a brick wall is left with by BrickWall.damage
BrickHealthAfter(health) == health - 1

\* BrickWall.damage and SteelWall.damage: the wall after the call, and the
\* value returned
WallDamage(wall) ==
    IF wall.kind = BRICK
    THEN LET h == BrickHealthAfter(wall.health)
         IN [wall |-> [wall EXCEPT !.health = h, !.hits = @ + 1],
             destroyed |-> h <= 0]
    ELSE [wall |-> [wall EXCEPT !.hits = @ + 1], destroyed |-> FALSE]

\* Base.__init__ and Base.destroy
NewBase(x, y) == [x |-> x, y |-> y, destroyed |-> FALSE]
BaseDestroy(base) == [base EXCEPT !.destroyed = TRUE]

\* PowerUp.__init__; id is the identity of the object, age the updates it
\* went through (the class keeps no such counter)
NesNewPowerUp(id, x, y, type) ==
    [id |-> id, x |-> x, y |-> y, type |-> type, age |-> 0]

\* Bullet.__init__: the rect is centred on (cx, cy)
NesNewBullet(cx, cy, direction, owner) ==
    [x |-> cx - NES_TILE_SIZE \div 2, y |-> cy - NES_TILE_SIZE \div 2,
     direction |-> direction, owner |-> owner, alive |-> TRUE,
     tracked |-> TRUE]

\* Bullet.update: the bullet moved
NesBulletMoved(b) ==
    CASE b.direction = UP -> [b EXCEPT !.y = @ - NES_BULLET_SPEED]
      [] b.direction = RIGHT -> [b EXCEPT !.x = @ + NES_BULLET_SPEED]
      [] b.direction = DOWN -> [b EXCEPT !.y = @ + NES_BULLET_SPEED]
      [] OTHER -> [b EXCEPT !.x = @ - NES_BULLET_SPEED]

\* Bullet.update: the bullet has left the screen
NesBulletOut(b) ==
    \/ b.x + NES_TILE_SIZE < 0
    \/ b.x > NES_SCREEN_WIDTH
    \/ b.y + NES_TILE_SIZE < 0
    \/ b.y > NES_SCREEN_HEIGHT

\* Explosion.__init__ and Explosion.update
NesNewExplosion(x, y, size) == [x |-> x, y |-> y, size |-> size, timer |-> 0]
NesExplosionUpdate(x) == [x EXCEPT !.timer = @ + 1]
NesExplosionDone(x) == x.timer >= EXPLOSION_DURATION

\* the sizes Level and the tanks give their explosions, in tenths
BulletBlast == 5
TankBlast == 15

\* PlayerTank.__init__
NesNewPlayer(x, y) ==
    [id |-> PlayerId, x |-> x, y |-> y, type |-> 0, direction |-> UP,
     speed |-> NES_PLAYER_SPEED, health |-> TankHealth(0),
     shoot_cooldown |-> 0, nbullets |-> 0, respawn_timer |-> 0,
     invulnerable_timer |-> 0, shield |-> 0, freeze |-> 0, speedup |-> 0]

\* EnemyTank.__init__; duration and timer are its two random draws
NesNewEnemy(id, x, y, type, duration, timer) ==
    [id |-> id, x |-> x, y |-> y, type |-> type, direction |-> UP,
     speed |-> NES_ENEMY_SPEED, health |-> TankHealth(type),
     shoot_cooldown |-> 0, nbullets |-> 0, move_timer |-> 0,
     move_duration |-> duration, shoot_timer |-> timer,
     frozen |-> FALSE, frozen_timer |-> 0]

\* Tank.bullets without the bullets that are gone: a bullet is tracked
\* while it is in the list of its owner (bs are the bullets of the level)
OwnBullets(bs, id) ==
    Cardinality({k \in 1..Len(bs) :
                    bs[k].owner = id /\ bs[k].alive /\ bs[k].tracked})

\* Tank.update: the cooldown runs down, the bullets that are gone are
\* forgotten; nbullets is len(Tank.bullets)
NesTankUpdate(t, bs) ==
    [t EXCEPT !.shoot_cooldown = IF @ > 0 THEN @ - 1 ELSE @,
              !.nbullets = OwnBullets(bs, t.id)]

\* the mutant of NesCanShoot: the cooldown is not looked at
NesCanShootCooling(t) == t.nbullets < TankMaxBullets(t.type)

\* Tank.shoot
NesCanShoot(t) == t.shoot_cooldown <= 0 /\ t.nbullets < TankMaxBullets(t.type)

NesShotBullet(t) ==
    LET half == NES_TILE_SIZE \div 2
        cx == t.x + half
        cy == t.y + half
    IN CASE t.direction = UP -> NesNewBullet(cx, cy - half, UP, t.id)
         [] t.direction = RIGHT -> NesNewBullet(cx + half, cy, RIGHT, t.id)
         [] t.direction = DOWN -> NesNewBullet(cx, cy + half, DOWN, t.id)
         [] OTHER -> NesNewBullet(cx - half, cy, LEFT, t.id)

NesAfterShoot(t) ==
    IF NesCanShoot(t)
    THEN [t EXCEPT !.shoot_cooldown = SHOOT_COOLDOWN, !.nbullets = @ + 1]
    ELSE t

NesBulletsAfterShoot(bs, t) ==
    IF NesCanShoot(t) THEN Append(bs, NesShotBullet(t)) ELSE bs

\* the bounds test of the two _check_collisions
NesOutOfBounds(r) ==
    \/ r.l < 0
    \/ r.l + r.w > NES_SCREEN_WIDTH
    \/ r.t < 0
    \/ r.t + r.h > NES_SCREEN_HEIGHT

\* the wall and water tests of the two _check_collisions
NesHitsTerrain(L, r) ==
    \/ \E k \in 1..Len(L.walls) : colliderect(r, RectOf(L.walls[k]))
    \/ \E c \in L.water_tiles : colliderect(r, SpriteRect(c[1], c[2]))

\* PlayerTank._check_collisions for the player standing at rect r
PlayerCheckCollisions(L, r) ==
    \/ NesHitsTerrain(L, r)
    \/ \E k \in 1..Len(L.enemy_tanks) : colliderect(r, RectOf(L.enemy_tanks[k]))
    \/ NesOutOfBounds(r)

\* EnemyTank._check_collisions for the enemy with identity self at rect r
EnemyCheckCollisions(L, self, r) ==
    \/ NesHitsTerrain(L, r)
    \/ \E k \in 1..Len(L.enemy_tanks) :
          L.enemy_tanks[k].id # self /\ colliderect(r, RectOf(L.enemy_tanks[k]))
    \/ colliderect(r, RectOf(L.player))
    \/ NesOutOfBounds(r)

\* the speed power-up of PlayerTank.update: the step times 1.5, which the
\* rect truncates
Sped(p, v) == IF p.speedup > 0 THEN Trunc(v * 15) ELSE v

\* PlayerTank.update for the arrow key held: the timers, the facing, and
\* Tank.move, which is undone when _check_collisions reports a collision
NesPlayerUpdate(L, key) ==
    LET p0 == NesTankUpdate(L.player, L.bullets)
        p1 == [p0 EXCEPT !.invulnerable_timer = IF @ > 0 THEN @ - 1 ELSE @,
                         !.shield = IF @ > 0 THEN @ - 1 ELSE @,
                         !.freeze = IF @ > 0 THEN @ - 1 ELSE @,
                         !.speedup = IF @ > 0 THEN @ - 1 ELSE @]
        d == CASE key = "up" -> UP
               [] key = "right" -> RIGHT
               [] key = "down" -> DOWN
               [] key = "left" -> LEFT
               [] OTHER -> p1.direction
        dx == IF key = "none" THEN 0 ELSE Sped(p1, StepDx(d, p1.speed))
        dy == IF key = "none" THEN 0 ELSE Sped(p1, StepDy(d, p1.speed))
        p2 == [p1 EXCEPT !.direction = d]
        r == SpriteRect(p2.x + dx, p2.y + dy)
    IN IF p0.respawn_timer > 0
       THEN [p0 EXCEPT !.respawn_timer = @ - 1]
       ELSE IF key = "none" \/ PlayerCheckCollisions(L, r)
       THEN p2
       ELSE [p2 EXCEPT !.x = @ + dx, !.y = @ + dy]

\* the centre of the rect of a sprite
CenterX(t) == t.x + NES_TILE_SIZE \div 2
CenterY(t) == t.y + NES_TILE_SIZE \div 2

\* EnemyTank._aim_at_target: the facing towards the target (tx, ty)
AimAt(e, tx, ty) ==
    LET dx == tx - CenterX(e)
        dy == ty - CenterY(e)
    IN IF Abs(dx) > Abs(dy)
       THEN (IF dx > 0 THEN RIGHT ELSE LEFT)
       ELSE (IF dy > 0 THEN DOWN ELSE UP)

\* the random draws of one EnemyTank.update: the facing at the end of a
\* stretch and its length, the facing after a collision, the target aimed at
\* before a shot ("none": the 30% draw failed) and the next shoot timer
NesEnemyDraws(e) ==
    [dir1 : IF e.move_timer + 1 >= e.move_duration
            THEN {UP, RIGHT, DOWN, LEFT} ELSE {e.direction},
     dur : IF e.move_timer + 1 >= e.move_duration
           THEN {30, 90} ELSE {e.move_duration},
     dir2 : {UP, RIGHT, DOWN, LEFT},
     aim : IF e.shoot_timer - 1 <= 0 THEN {"none", "player", "base"} ELSE {"none"},
     st : IF e.shoot_timer - 1 <= 0 THEN {30, 90} ELSE {e.shoot_timer - 1}]

\* EnemyTank.update for enemy k of the level L with the draws d: the level
\* after it
NesEnemyUpdate(L, k, d) ==
    LET e == L.enemy_tanks[k]
        e0 == NesTankUpdate(e, L.bullets)
        turn == e0.move_timer + 1 >= e0.move_duration
        e1 == [e0 EXCEPT !.move_timer = IF turn THEN 0 ELSE @ + 1,
                         !.direction = d.dir1,
                         !.move_duration = d.dur]
        r == SpriteRect(e1.x + StepDx(e1.direction, e1.speed),
                        e1.y + StepDy(e1.direction, e1.speed))
        e2 == IF EnemyCheckCollisions(L, e.id, r)
              THEN [e1 EXCEPT !.direction = d.dir2, !.move_timer = 0]
              ELSE [e1 EXCEPT !.x = r.l, !.y = r.t]
        due == e2.shoot_timer - 1 <= 0
        e3 == CASE ~due \/ d.aim = "none" -> e2
                [] d.aim = "player" ->
                     [e2 EXCEPT !.direction =
                         AimAt(e2, CenterX(L.player), CenterY(L.player))]
                [] OTHER ->
                     [e2 EXCEPT !.direction =
                         AimAt(e2, CenterX(L.base), CenterY(L.base))]
        e4 == IF due THEN [NesAfterShoot(e3) EXCEPT !.shoot_timer = d.st]
              ELSE [e3 EXCEPT !.shoot_timer = @ - 1]
    IN IF e0.frozen
       THEN [L EXCEPT !.enemy_tanks[k] =
                [e0 EXCEPT !.frozen_timer = @ - 1,
                           !.frozen = ~(e0.frozen_timer - 1 <= 0)]]
       ELSE [L EXCEPT !.enemy_tanks[k] = e4,
                      !.bullets = IF due THEN NesBulletsAfterShoot(@, e3) ELSE @]

\* EnemyTank.freeze that sets the flag and no time
FrozenUntimed(e, duration) == [e EXCEPT !.frozen = TRUE, !.frozen_timer = 0]

\* EnemyTank.freeze and Level.freeze_enemies
Frozen(e, duration) == [e EXCEPT !.frozen = TRUE, !.frozen_timer = duration]

freeze_enemies(L) ==
    [L EXCEPT !.enemy_tanks =
        [k \in 1..Len(L.enemy_tanks) |-> Frozen(L.enemy_tanks[k], FREEZE_DURATION)]]

(* The operators below work on a record g of the game, its level, the tanks *)
(* destroyed so far (dead) and the observation o.                           *)

\* an Explosion added to the effects of the level
NesExplode(g, x, y, size) ==
    [g EXCEPT !.level.effects = Append(@, NesNewExplosion(x, y, size))]

\* Game.add_score
add_score(g, points) == [g EXCEPT !.game.score = @ + points]

\* PlayerTank.respawn, which also empties the list of the player's bullets
NesRespawn(L, x, y) ==
    [L EXCEPT !.player.x = x, !.player.y = y, !.player.direction = UP,
              !.player.nbullets = 0, !.player.shoot_cooldown = 0,
              !.player.invulnerable_timer = RESPAWN_INVULNERABLE_TIME,
              !.bullets = [k \in 1..Len(@) |->
                              IF @[k].owner = PlayerId
                              THEN [@[k] EXCEPT !.tracked = FALSE] ELSE @[k]]]

\* Level.reset_player
reset_player(L) == NesRespawn(L, 240, 400)

\* Game.player_hit
player_hit(g) ==
    LET g1 == [g EXCEPT !.game.lives = @ - 1]
    IN IF g1.game.lives <= 0
       THEN [g1 EXCEPT !.game.state = "GAME_OVER"]
       ELSE [g1 EXCEPT !.level = reset_player(@)]

\* PlayerTank.hit: the value returned
NesPlayerHurt(p) == ~(p.invulnerable_timer > 0 \/ p.shield > 0)

\* PlayerTank.hit
NesPlayerHit(g) ==
    IF ~NesPlayerHurt(g.level.player) THEN g
    ELSE player_hit(NesExplode(g, CenterX(g.level.player),
                               CenterY(g.level.player), TankBlast))

\* the mutant of NesEnemiesAfterKill: the destroyed enemy stays in the group
NesEnemiesKept(es, k) == es

\* the enemy group after the enemy at position k killed itself
NesEnemiesAfterKill(es, k) == RemoveAt(es, k)

\* the record kept of a destroyed tank of this game
NesDeath(t, points, by) ==
    [id |-> t.id, tank_type |-> t.type, health |-> t.health,
     x |-> t.x, y |-> t.y, points |-> points, by |-> by]

\* EnemyTank.hit for enemy k; o.destroyed reports the value returned
NesEnemyHit(g, k) ==
    LET e == g.level.enemy_tanks[k]
        e1 == [e EXCEPT !.health = @ - 1]
        g1 == [g EXCEPT !.o.tank = e.id, !.o.tank_type = e.type,
                        !.o.harmed = TRUE]
    IN IF e1.health <= 0
       THEN [add_score(NesExplode(g1, CenterX(e), CenterY(e), TankBlast),
                       TankPoints(e.type))
                EXCEPT !.level.enemy_tanks = NesEnemiesAfterKill(@, k),
                       !.dead = Append(@, NesDeath(e1, TankPoints(e.type), "bullet")),
                       !.o.destroyed = TRUE,
                       !.o.points = TankPoints(e.type),
                       !.o.blast = "large"]
       ELSE [g1 EXCEPT !.level.enemy_tanks[k] = e1]

\* the mutant of add_powerup: the extra life is given twice
add_powerup_twice(g, type) ==
    CASE type = "shield" -> [g EXCEPT !.level.player.shield = POWERUP_DURATION]
      [] type = "freeze" ->
           [g EXCEPT !.level = freeze_enemies([@ EXCEPT !.player.freeze = POWERUP_DURATION])]
      [] type = "life" -> [g EXCEPT !.game.lives = @ + 2]
      [] type = "speed" -> [g EXCEPT !.level.player.speedup = POWERUP_DURATION]
      [] OTHER -> g

\* PlayerTank.add_powerup
add_powerup(g, type) ==
    CASE type = "shield" -> [g EXCEPT !.level.player.shield = POWERUP_DURATION]
      [] type = "freeze" ->
           [g EXCEPT !.level = freeze_enemies([@ EXCEPT !.player.freeze = POWERUP_DURATION])]
      [] type = "life" -> [g EXCEPT !.game.lives = @ + 1]
      [] type = "speed" -> [g EXCEPT !.level.player.speedup = POWERUP_DURATION]
      [] OTHER -> g

\* Level._spawn_powerup of the type drawn
NesSpawnPowerup(g, x, y, type) ==
    [g EXCEPT !.level.powerups = Append(@, NesNewPowerUp(g.made + 1, x, y, type)),
              !.made = @ + 1]

\* the first element of the sequence s that satisfies Test, 0 if there is none
FirstOf(s, Test(_)) ==
    IF \E k \in 1..Len(s) : Test(s[k])
    THEN CHOOSE k \in 1..Len(s) : Test(s[k]) /\ \A j \in 1..(k - 1) : ~Test(s[j])
    ELSE 0

\* the wall branch of Level._handle_bullet_collisions for bullet i and the
\* wall k it collides with; roll is "none" or the type of the power-up drawn
NesBulletWall(g, i, k, roll) ==
    LET b == g.level.bullets[i]
        r == WallDamage(g.level.walls[k])
        g1 == [g EXCEPT !.level.walls = IF r.destroyed THEN RemoveAt(@, k)
                                        ELSE [@ EXCEPT ![k] = r.wall],
                        !.level.bullets[i].alive = FALSE,
                        !.o.terrain = r.wall.kind,
                        !.o.cell = <<r.wall.x, r.wall.y>>,
                        !.o.hits = r.wall.hits,
                        !.o.gone = r.destroyed]
        g2 == IF r.destroyed /\ roll # "none"
              THEN NesSpawnPowerup(g1, r.wall.x, r.wall.y, roll) ELSE g1
    IN NesExplode(g2, CenterX(b), CenterY(b), BulletBlast)

\* the base branch
NesBulletBase(g, i) ==
    LET b == g.level.bullets[i]
    IN NesExplode([g EXCEPT !.level.base = BaseDestroy(@),
                            !.level.bullets[i].alive = FALSE,
                            !.o.terrain = BASE,
                            !.o.cell = <<g.level.base.x, g.level.base.y>>,
                            !.o.gone = TRUE],
                  CenterX(b), CenterY(b), BulletBlast)

\* the loop over the other bullets: the first live bullet that overlaps
NesBulletBullet(g, i) ==
    LET b == g.level.bullets[i]
        Hits(k) == /\ k # i
                   /\ g.level.bullets[k].alive
                   /\ colliderect(RectOf(b), RectOf(g.level.bullets[k]))
    IN IF \E k \in 1..Len(g.level.bullets) : Hits(k)
       THEN LET k == CHOOSE k \in 1..Len(g.level.bullets) :
                         Hits(k) /\ \A j \in 1..(k - 1) : ~Hits(j)
            IN NesExplode([g EXCEPT !.level.bullets[i].alive = FALSE,
                                    !.level.bullets[k].alive = FALSE,
                                    !.o.pair = TRUE],
                          CenterX(b), CenterY(b), BulletBlast)
       ELSE g

\* the tank branches, which a bullet reaches only while it is in the group
NesBulletTank(g, i) ==
    LET b == g.level.bullets[i]
        OnIt(t) == colliderect(RectOf(b), RectOf(t))
        k == FirstOf(g.level.enemy_tanks, OnIt)
    IN IF ~b.alive THEN g
       ELSE IF b.owner = PlayerId
       THEN IF k = 0 THEN g
            ELSE NesExplode([NesEnemyHit(g, k) EXCEPT
                                !.level.bullets[i].alive = FALSE],
                            CenterX(b), CenterY(b), BulletBlast)
       ELSE IF ~OnIt(g.level.player) THEN g
       ELSE LET hurt == NesPlayerHurt(g.level.player)
                g1 == [NesPlayerHit(g) EXCEPT
                          !.o.tank = PlayerId,
                          !.o.harmed = hurt,
                          !.o.destroyed = hurt /\ g.game.lives - 1 <= 0,
                          !.o.blast = IF hurt THEN "large" ELSE "none"]
                g2 == IF hurt
                      THEN NesExplode(g1, CenterX(b), CenterY(b), BulletBlast)
                      ELSE g1
            IN [g2 EXCEPT !.level.bullets[i].alive = FALSE]

\* one round of the loop of Level._handle_bullet_collisions, for bullet i of
\* the bullets the loop started with
NesBulletCollide(g, i, roll) ==
    LET b == g.level.bullets[i]
        OnIt(s) == colliderect(RectOf(b), RectOf(s))
        k == FirstOf(g.level.walls, OnIt)
        g0 == [g EXCEPT !.o.step = "bullet", !.o.bullet = i, !.o.power = 1]
        after == NesBulletTank(NesBulletBullet(g0, i), i)
        done == IF k # 0 THEN NesBulletWall(g0, i, k, roll)
                ELSE IF OnIt(g.level.base) THEN NesBulletBase(g0, i)
                ELSE [after EXCEPT !.level.enemies_destroyed =
                         IF after.o.tank > PlayerId /\ after.o.destroyed
                         THEN @ + 1 ELSE @]
    IN [done EXCEPT !.o.removed = ~done.level.bullets[i].alive]

---------------------------------------------------------------------------
(* The frame of the grid game (src/game.py Game.run, Game.update_playing).  *)

\* the time one frame takes at FPS frames a second, in ms
FrameMs == 1000 \div FPS

\* the draws of Game.spawn_power_up: no power-up, or its type
PowerUpRolls == {-1} \cup (SHIELD..STAR)

\* the objects a bullet or a power-up can change, as they are now
World ==
    [tiles |-> tiles, base_destroyed |-> base_destroyed, player |-> player,
     enemies |-> enemies, enemies_on_screen |-> enemies_on_screen,
     score |-> score, power_ups |-> power_ups, explosions |-> explosions,
     bullets |-> bullets, enemy_freeze |-> enemy_freeze,
     freeze_timer |-> freeze_timer, dead |-> dead, made |-> made,
     struck |-> struck,
     o |-> NoObs]

\* the objects of w become the objects of the game
Commit(w) ==
    /\ tiles' = w.tiles
    /\ base_destroyed' = w.base_destroyed
    /\ player' = w.player
    /\ enemies' = w.enemies
    /\ enemies_on_screen' = w.enemies_on_screen
    /\ score' = w.score
    /\ power_ups' = w.power_ups
    /\ explosions' = w.explosions
    /\ bullets' = w.bullets
    /\ enemy_freeze' = w.enemy_freeze
    /\ freeze_timer' = w.freeze_timer
    /\ dead' = w.dead
    /\ made' = w.made
    /\ struck' = w.struck
    /\ obs' = w.o

\* what the frame has seen once the step that reports o is done
FrameAfter(f, o) ==
    [f EXCEPT !.base_struck = @ \/ (o.step = "bullet" /\ o.terrain = BASE),
              !.player_out = @ \/ (o.tank = PlayerId /\ o.destroyed),
              !.kills = @ + (IF o.tank > PlayerId /\ o.destroyed THEN 1 ELSE 0)]

\* Game.run: the clock has advanced and update_playing starts
GridBeginFrame ==
    /\ variant = "grid" /\ pc = "idle" /\ state = PLAYING
    /\ ticks < MaxTicks
    /\ ticks' = ticks + 1
    /\ now' = now + FrameMs
    /\ pc' = "player"
    /\ frame' = NoFrame
    /\ obs' = NoObs
    /\ UNCHANGED <<variant, file, idx, next_id, dead, made, state, current_level, score,
                   tiles, base_destroyed, player, enemies, bullets, explosions,
                   power_ups, enemy_spawn_timer, enemies_left,
                   enemies_on_screen, enemy_freeze, freeze_timer>>
    /\ UNCHANGED <<struck, nesVars>>

\* update_playing: PlayerTank.update for the keys held, if the player lives
GridPlayerStep ==
    /\ variant = "grid" /\ pc = "player"
    /\ pc' = "spawn"
    /\ IF player.lives > 0
       THEN \E key \in Keys :
            \E space \in (IF Len(bullets) < MaxBullets THEN BOOLEAN ELSE {FALSE}) :
               LET m == PlayerMove(PlayerTimers(player), key)
               IN /\ player' = AfterShoot(m.tank, space)
                  /\ bullets' = BulletsAfterShoot(bullets, m.tank, space)
                  /\ obs' = [NoObs EXCEPT !.step = "player",
                                          !.tank = PlayerId,
                                          !.asked = (key # "none"),
                                          !.box = <<player.x + KeyDx(key) * player.speed,
                                                    player.y + KeyDy(key) * player.speed>>,
                                          !.moved = m.moved,
                                          !.rejected = (key # "none" /\ ~m.moved),
                                          !.from = <<player.x, player.y>>,
                                          !.tries = IF key = "none" THEN <<>>
                                                    ELSE <<Try(player, KeyDx(key),
                                                               KeyDy(key))>>,
                                          !.fire = space,
                                          !.cooldown = ReloadLeft(m.tank),
                                          !.shot = space /\ CanShoot(m.tank)]
       ELSE /\ obs' = NoObs
            /\ UNCHANGED <<player, bullets>>
    /\ UNCHANGED <<variant, file, idx, ticks, next_id, dead, made, frame, now, state,
                   current_level, score, tiles, base_destroyed, enemies,
                   explosions, power_ups, enemy_spawn_timer, enemies_left,
                   enemies_on_screen, enemy_freeze, freeze_timer>>
    /\ UNCHANGED <<struck, nesVars>>

\* the guard of Game.spawn_enemies without the test of the spawn delay
SpawnDueUndelayed ==
    /\ enemies_left > 0
    /\ enemies_on_screen < MAX_ENEMIES_ON_SCREEN

\* the guard of Game.spawn_enemies without the test of the quota
SpawnDueBeyondQuota ==
    /\ enemies_on_screen < MAX_ENEMIES_ON_SCREEN
    /\ now - enemy_spawn_timer > ENEMY_SPAWN_DELAY

\* the mutant of SpawnDue: the enemies on the screen are not counted
SpawnDueUncapped ==
    /\ enemies_left > 0
    /\ now - enemy_spawn_timer > ENEMY_SPAWN_DELAY

\* the guard of Game.spawn_enemies
SpawnDue ==
    /\ enemies_left > 0
    /\ enemies_on_screen < MAX_ENEMIES_ON_SCREEN
    /\ now - enemy_spawn_timer > ENEMY_SPAWN_DELAY

\* Game.spawn_enemies
GridSpawnStep ==
    /\ variant = "grid" /\ pc = "spawn"
    /\ pc' = "enemies"
    /\ idx' = 1
    /\ IF SpawnDue
       THEN \E pos \in EnemySpawnPositions :
            \E tank_type \in {BASIC_TANK, FAST_TANK, POWER_TANK, ARMOR_TANK} :
            \E delay \in {500, 2000} :
               /\ enemy_spawn_timer' = now
               /\ enemies' = Append(enemies,
                                 NewEnemy(next_id, pos[1], pos[2], tank_type, delay))
               /\ next_id' = next_id + 1
               /\ enemies_left' = enemies_left - 1
               /\ enemies_on_screen' = enemies_on_screen + 1
               /\ obs' = [NoObs EXCEPT !.step = "spawn", !.spawned = 1,
                                       !.tank = next_id, !.tank_type = tank_type]
       ELSE /\ obs' = [NoObs EXCEPT !.step = "spawn"]
            /\ UNCHANGED <<enemy_spawn_timer, enemies, next_id, enemies_left,
                           enemies_on_screen>>
    /\ UNCHANGED <<variant, file, ticks, dead, made, frame, now, state, current_level,
                   score, tiles, base_destroyed, player, bullets, explosions,
                   power_ups, enemy_freeze, freeze_timer>>
    /\ UNCHANGED <<struck, nesVars>>

\* update_playing: EnemyTank.update of the next enemy, if enemies are not frozen
GridEnemyStep ==
    /\ variant = "grid" /\ pc = "enemies"
    /\ ~enemy_freeze
    /\ idx <= Len(enemies)
    /\ \E d \in EnemyDraws(enemies[idx]) :
          LET e == enemies[idx]
              e2 == EnemyUpdate(e, d)
          IN /\ enemies' = [enemies EXCEPT ![idx] = e2]
             /\ bullets' = BulletsAfterShoot(bullets, e, d.shoot)
             /\ obs' = [NoObs EXCEPT !.step = "enemy", !.tank = e.id,
                                     !.asked = TRUE,
                                     !.box = <<e.x + FirstTry(e, d)[1] * e.speed,
                                               e.y + FirstTry(e, d)[2] * e.speed>>,
                                     !.moved = (e2.x # e.x \/ e2.y # e.y),
                                     !.rejected = (e2.x = e.x /\ e2.y = e.y),
                                     !.from = <<e.x, e.y>>,
                                     !.tries = EnemyTries(e, d),
                                     !.fire = d.shoot,
                                     !.cooldown = ReloadLeft(e),
                                     !.shot = d.shoot /\ CanShoot(e)]
    /\ idx' = idx + 1
    /\ UNCHANGED <<variant, file, pc, ticks, next_id, dead, made, frame, now, state,
                   current_level, score, tiles, base_destroyed, player,
                   explosions, power_ups, enemy_spawn_timer, enemies_left,
                   enemies_on_screen, enemy_freeze, freeze_timer>>
    /\ UNCHANGED <<struck, nesVars>>

\* update_playing: the enemies are done, or frozen (then the freeze may expire)
GridEnemiesDone ==
    /\ variant = "grid" /\ pc = "enemies"
    /\ enemy_freeze \/ idx > Len(enemies)
    /\ enemy_freeze' = IF enemy_freeze /\ now - freeze_timer > 10000
                       THEN FALSE ELSE enemy_freeze
    /\ pc' = "bullets"
    /\ idx' = 1
    /\ obs' = NoObs
    /\ UNCHANGED <<variant, file, ticks, next_id, dead, made, frame, now, state,
                   current_level, score, tiles, base_destroyed, player,
                   enemies, bullets, explosions, power_ups, enemy_spawn_timer,
                   enemies_left, enemies_on_screen, freeze_timer>>
    /\ UNCHANGED <<struck, nesVars>>

\* update_playing: Bullet.update of the next bullet, removed if it is flagged
GridBulletStep ==
    /\ variant = "grid" /\ pc = "bullets"
    /\ idx <= Len(bullets)
    /\ \E roll \in PowerUpRolls :
          LET w == BulletUpdate(World, idx, roll)
              gone == w.bullets[idx].to_remove
          IN /\ Commit([w EXCEPT !.bullets = IF gone THEN RemoveAt(@, idx) ELSE @,
                                  !.o.removed = gone])
             /\ idx' = IF gone THEN idx ELSE idx + 1
             /\ frame' = FrameAfter(frame, w.o)
    /\ UNCHANGED <<variant, file, pc, ticks, next_id, now, state, current_level,
                   enemy_spawn_timer, enemies_left>>
    /\ UNCHANGED nesVars

GridBulletsDone ==
    /\ variant = "grid" /\ pc = "bullets"
    /\ idx > Len(bullets)
    /\ pc' = "explosions"
    /\ obs' = NoObs
    /\ UNCHANGED <<variant, file, idx, ticks, next_id, dead, made, frame, gridVars>>
    /\ UNCHANGED <<struck, nesVars>>

\* the frames of an explosion animation and the updates each one is shown for
ExplosionFrames == 5
AnimationSpeed == 5

\* Explosion.update
ExplosionUpdate(x) ==
    IF x.frame_counter + 1 >= AnimationSpeed
    THEN [x EXCEPT !.frame_counter = 0, !.current_frame = @ + 1]
    ELSE [x EXCEPT !.frame_counter = @ + 1]

\* Explosion.done
ExplosionDone(x) == x.current_frame >= ExplosionFrames

\* update_playing: every explosion is updated, the finished ones are removed
GridExplosionsStep ==
    /\ variant = "grid" /\ pc = "explosions"
    /\ LET updated == [k \in 1..Len(explosions) |-> ExplosionUpdate(explosions[k])]
           Live(x) == ~ExplosionDone(x)
       IN explosions' = SelectSeq(updated, Live)
    /\ pc' = "power_ups"
    /\ idx' = 1
    /\ obs' = NoObs
    /\ UNCHANGED <<variant, file, ticks, next_id, dead, made, frame, now, state,
                   current_level, score, tiles, base_destroyed, player,
                   enemies, bullets, power_ups, enemy_spawn_timer,
                   enemies_left, enemies_on_screen, enemy_freeze, freeze_timer>>
    /\ UNCHANGED <<struck, nesVars>>

\* update_playing: PowerUp.update of the next power-up, removed if collected
GridPowerUpStep ==
    /\ variant = "grid" /\ pc = "power_ups"
    /\ idx <= Len(power_ups)
    /\ LET w == PowerUpUpdate(World, idx)
           gone == w.power_ups[idx].collected
       IN /\ Commit([w EXCEPT !.power_ups = IF gone THEN RemoveAt(@, idx) ELSE @])
          /\ idx' = IF gone THEN idx ELSE idx + 1
    /\ UNCHANGED <<variant, file, pc, ticks, next_id, frame, now, state,
                   current_level, enemy_spawn_timer, enemies_left>>
    /\ UNCHANGED nesVars

GridPowerUpsDone ==
    /\ variant = "grid" /\ pc = "power_ups"
    /\ idx > Len(power_ups)
    /\ pc' = "check"
    /\ obs' = NoObs
    /\ UNCHANGED <<variant, file, idx, ticks, next_id, dead, made, frame, gridVars>>
    /\ UNCHANGED <<struck, nesVars>>

\* the win condition of update_playing
LevelCleared == enemies_left <= 0 /\ Len(enemies) = 0

\* Game.reset_game: a new level and a new player, every list emptied
ResetGame ==
    /\ tiles' = LevelTiles
    /\ base_destroyed' = FALSE
    /\ player' = NewPlayer(PlayerStart[1], PlayerStart[2])
    /\ enemies' = <<>>
    /\ bullets' = <<>>
    /\ explosions' = <<>>
    /\ power_ups' = <<>>
    /\ enemy_spawn_timer' = now
    /\ enemies_left' = MAX_ENEMY_COUNT
    /\ enemies_on_screen' = 0
    /\ enemy_freeze' = FALSE
    /\ freeze_timer' = 0
    /\ struck' = <<>>

\* update_playing: the win condition, handle_level_complete, then the lose
\* condition on what handle_level_complete left, handle_game_over
GridCheckStep ==
    /\ variant = "grid" /\ pc = "check"
    /\ pc' = "idle"
    /\ IF LevelCleared /\ current_level < LEVEL_COUNT
       THEN /\ current_level' = current_level + 1
            /\ ResetGame
            /\ state' = state
            /\ obs' = [NoObs EXCEPT !.step = "check", !.won = TRUE,
                          !.lost = (player'.lives <= 0 \/ base_destroyed')]
       ELSE /\ state' = IF player.lives <= 0 \/ base_destroyed THEN GAME_OVER
                        ELSE IF LevelCleared THEN VICTORY
                        ELSE state
            /\ obs' = [NoObs EXCEPT !.step = "check",
                          !.won = LevelCleared,
                          !.lost = (player.lives <= 0 \/ base_destroyed)]
            /\ UNCHANGED <<current_level, tiles, base_destroyed, player,
                           enemies, bullets, explosions, power_ups,
                           enemy_spawn_timer, enemies_left, enemies_on_screen,
                           enemy_freeze, freeze_timer, struck>>
    /\ UNCHANGED <<variant, file, idx, ticks, next_id, dead, made, frame, now, score>>
    /\ UNCHANGED nesVars

\* Game.run: a frame in a state that updates nothing; the clock goes on
GridIdleFrame ==
    /\ variant = "grid" /\ pc = "idle"
    /\ state \in {PAUSE, GAME_OVER, VICTORY}
    /\ ticks < MaxTicks
    /\ ticks' = ticks + 1
    /\ now' = now + FrameMs
    /\ obs' = NoObs
    /\ UNCHANGED <<variant, file, pc, idx, next_id, dead, made, frame, state,
                   current_level, score, tiles, base_destroyed, player,
                   enemies, bullets, explosions, power_ups, enemy_spawn_timer,
                   enemies_left, enemies_on_screen, enemy_freeze, freeze_timer>>
    /\ UNCHANGED <<struck, nesVars>>

\* Game.handle_playing_event and Game.handle_pause_event: the Escape key
GridEscapeKey ==
    /\ variant = "grid" /\ pc = "idle"
    /\ state \in {PLAYING, PAUSE}
    /\ state' = IF state = PLAYING THEN PAUSE ELSE PLAYING
    /\ obs' = [NoObs EXCEPT !.step = "key"]
    /\ UNCHANGED <<variant, file, pc, idx, ticks, next_id, dead, made, frame, now,
                   current_level, score, tiles, base_destroyed, player,
                   enemies, bullets, explosions, power_ups, enemy_spawn_timer,
                   enemies_left, enemies_on_screen, enemy_freeze, freeze_timer>>
    /\ UNCHANGED <<struck, nesVars>>

\* Game.handle_end_game_event: the Return key
GridReturnKey ==
    /\ variant = "grid" /\ pc = "idle"
    /\ state \in {GAME_OVER, VICTORY}
    /\ state' = MENU
    /\ obs' = [NoObs EXCEPT !.step = "key"]
    /\ UNCHANGED <<variant, file, pc, idx, ticks, next_id, dead, made, frame, now,
                   current_level, score, tiles, base_destroyed, player,
                   enemies, bullets, explosions, power_ups, enemy_spawn_timer,
                   enemies_left, enemies_on_screen, enemy_freeze, freeze_timer>>
    /\ UNCHANGED <<struck, nesVars>>

\* Game.start_game, which the menu calls
GridStartGame ==
    /\ variant = "grid" /\ pc = "idle"
    /\ state = MENU
    /\ current_level' = 1
    /\ score' = 0
    /\ ResetGame
    /\ state' = PLAYING
    /\ obs' = [NoObs EXCEPT !.step = "start"]
    /\ UNCHANGED <<variant, file, pc, idx, ticks, next_id, dead, made, frame, now>>
    /\ UNCHANGED nesVars

NextA ==
    \/ GridBeginFrame
    \/ GridPlayerStep
    \/ GridSpawnStep
    \/ GridEnemyStep
    \/ GridEnemiesDone
    \/ GridBulletStep
    \/ GridBulletsDone
    \/ GridExplosionsStep
    \/ GridPowerUpStep
    \/ GridPowerUpsDone
    \/ GridCheckStep
    \/ GridIdleFrame
    \/ GridEscapeKey
    \/ GridReturnKey
    \/ GridStartGame

---------------------------------------------------------------------------
(* The states a behaviour of the grid game starts in: the game right after  *)
(* Game.start_game, and states of a level in progress.  In the states in    *)
(* progress the clock reads T0, the player has left spawn protection and    *)
(* the enemies stand still: frozen by a FREEZE power-up taken a second ago, *)
(* or (Duel) between two decisions of their AI.                             *)

\* the clock of the states in progress, in ms
T0 == 20000

\* the player of a state in progress: at (x, y) pixels, facing d, with
\* `lives` lives and the upgrade level lv (1, or 3 after two STAR)
PlayerIn(x, y, d, lives, lv) ==
    [PlayerTankAt(x, y, T0 - 10000) EXCEPT
        !.direction = d, !.lives = lives, !.level = lv,
        !.reload_time = IF lv >= 2 THEN 800 ELSE 1000,
        !.power = IF lv >= 3 THEN 2 ELSE 1,
        !.last_shot_time = T0 - 1000,
        !.spawn_protection = FALSE]

\* an enemy of a state in progress: it fired and chose its way 100 ms ago
EnemyIn(id, x, y, d, tank_type) ==
    [EnemyTankAt(id, x, y, tank_type, 2000, T0 - 100) EXCEPT
        !.direction = d, !.last_shot_time = T0 - 100]

\* a bullet in flight at (x, y) pixels
BulletIn(x, y, d, owner, power) ==
    [x |-> Px(x), y |-> Px(y), direction |-> d, owner |-> owner,
     power |-> power, to_remove |-> FALSE]

\* a state in progress: the player p, the enemies es of which none is still
\* to come when `last`, the bullets bs, the power-ups pus
Progress(p, es, bs, pus, frozen, last, lvl, since) ==
    [now |-> T0, state |-> PLAYING, current_level |-> lvl, score |-> 0,
     tiles |-> LevelTiles, base_destroyed |-> FALSE, player |-> p,
     enemies |-> es, bullets |-> bs, explosions |-> <<>>, power_ups |-> pus,
     enemy_spawn_timer |-> T0 - since,
     enemies_left |-> IF last THEN 0 ELSE MAX_ENEMY_COUNT - Len(es) - 1,
     enemies_on_screen |-> Len(es),
     enemy_freeze |-> frozen,
     freeze_timer |-> IF frozen THEN T0 - 1000 ELSE 0,
     next_id |-> Len(es) + 2]

\* right after Game.start_game
Started ==
    [Progress(PlayerTankAt(PlayerStart[1], PlayerStart[2], T0), <<>>, <<>>,
              <<>>, FALSE, FALSE, 1, 0)
        EXCEPT !.enemies_left = MAX_ENEMY_COUNT, !.next_id = 1]

\* the player alone, next to the borders, the water, the grass and the ice
Alone ==
    {Progress(PlayerIn(xy[1], xy[2], UP, PLAYER_LIVES, 1), <<>>, <<>>, <<>>,
              FALSE, FALSE, 1, 1000) :
        xy \in {<<0, 64>>, <<96, 32>>, <<32, 0>>,
                <<SCREEN_WIDTH - TILE_SIZE, SCREEN_HEIGHT - TILE_SIZE>>}}

\* the player below the brick of cell (0, 1), an enemy beside the brick
BrickAndTank ==
    {Progress(PlayerIn(16, 64, UP, PLAYER_LIVES, 1),
              <<EnemyIn(2, 32, 32, DOWN, k)>>, <<>>, <<>>, TRUE, FALSE, 1, 1000) :
        k \in {BASIC_TANK, FAST_TANK, POWER_TANK, ARMOR_TANK}}

\* the player below the steel of cell (2, 1), with and without the upgrade
BelowSteel ==
    {Progress(PlayerIn(48, 64, UP, PLAYER_LIVES, lv), <<>>, <<>>, <<>>,
              FALSE, FALSE, 1, 1000) : lv \in {1, 3}}

\* the player above the base, facing it; when `last`, the one enemy left of
\* the quota has a bullet of a destroyed enemy coming at it
AboveBase ==
    {Progress(PlayerIn(96, 64, DOWN, PLAYER_LIVES, 1),
              IF last THEN <<EnemyIn(2, 200, 200, UP, BASIC_TANK)>> ELSE <<>>,
              IF last THEN <<BulletIn(216, 238, UP, 1, 1)>> ELSE <<>>,
              <<>>, last, last, lvl, 1000) :
        last \in BOOLEAN, lvl \in {1, LEVEL_COUNT}}

\* an enemy that moves, a pixel away from the player, between the steel
\* above it and the brick below it; when `due` it is about to choose its
\* way again
Duel ==
    {Progress(PlayerIn(32, 64, RIGHT, PLAYER_LIVES, 1),
              <<[EnemyIn(2, 65, 64, LEFT, FAST_TANK) EXCEPT
                    !.move_timer = IF due THEN T0 - 3000 ELSE @]>>,
              <<>>, <<>>, FALSE, FALSE, 1, 1000) :
        due \in BOOLEAN}

\* the FREEZE and the SHIELD taken ten seconds ago are about to run out; an
\* enemy that will move stands a pixel away from the player
Thaw ==
    {[Progress([PlayerIn(32, 64, RIGHT, PLAYER_LIVES, 1) EXCEPT
                   !.shield = TRUE, !.shield_timer = T0 - 10000],
               <<EnemyIn(2, 65, 64, LEFT, FAST_TANK)>>,
               <<>>, <<>>, TRUE, FALSE, 1, 1000)
        EXCEPT !.freeze_timer = T0 - 10000]}

\* n enemies on the screen, those of the quota that are left when `last`,
\* and a spawn timer that elapsed three times
Crowd ==
    {Progress(PlayerIn(32, 64, UP, PLAYER_LIVES, 1),
              [k \in 1..nl[1] |->
                  EnemyIn(k + 1, 100 * k + 100, 200, DOWN, BASIC_TANK)],
              <<>>, <<>>, TRUE, nl[2], 1, 3 * ENEMY_SPAWN_DELAY) :
        nl \in ({MAX_ENEMIES_ON_SCREEN - 1, MAX_ENEMIES_ON_SCREEN} \X {FALSE})
                  \cup {<<MAX_ENEMIES_ON_SCREEN - 1, TRUE>>}}

\* a power-up of every type under the player, two enemies on the screen
\* (for the GRENADE also: the last two of the quota); or a power-up that is
\* about to expire
Pickup ==
    {Progress(PlayerIn(32, 64, UP, PLAYER_LIVES, 1),
              <<EnemyIn(2, 200, 200, DOWN, ARMOR_TANK),
                EnemyIn(3, 300, 200, DOWN, FAST_TANK)>>,
              <<>>,
              <<[NewPowerUp(1, Px(xc[1]), Px(64), xc[3]) EXCEPT !.counter = xc[2]]>>,
              TRUE, xc[4], 1, 1000) :
        xc \in ({40} \X {100} \X (SHIELD..STAR) \X {FALSE})
                 \cup ({40} \X {100} \X {GRENADE} \X {TRUE})
                 \cup ({40, 300} \X {PowerUpLifespan - 1} \X {STAR} \X {FALSE})}

\* a bullet of enemy 2 coming up at the player, who has `lives` lives; from
\* y = 100 it strikes the player, from y = 112 (and from y = 110, two steps
\* away from a player who comes down) it meets a bullet fired down;
\* the player may have taken a SHIELD or a HELMET a second ago, or have been
\* put back on the level a second ago
UnderFire ==
    {Progress([PlayerIn(32, 64, DOWN, ly[1], 1) EXCEPT
                  !.shield = (ly[3] = "shield"),
                  !.shield_timer = IF ly[3] = "shield" THEN T0 - 1000 ELSE @,
                  !.invincible = (ly[3] = "helmet"),
                  !.invincible_timer = IF ly[3] = "helmet" THEN T0 - 1000 ELSE @,
                  !.spawn_protection = (ly[3] = "spawn"),
                  !.spawn_timer = IF ly[3] = "spawn" THEN T0 - 1000 ELSE @],
              <<EnemyIn(2, 32, 200, UP, BASIC_TANK)>>,
              <<BulletIn(48, ly[2], UP, 2, 1)>>, <<>>, TRUE, FALSE, 1, 1000) :
        ly \in ({1, PLAYER_LIVES} \X {100, 110, 112} \X {"none"})
                  \cup ({1} \X {100} \X {"shield", "helmet", "spawn"})}

\* two bullets of the player are about to strike the same enemy in one
\* frame, one from below and one from the left
Crossfire ==
    {Progress(PlayerIn(32, 64, UP, PLAYER_LIVES, 1),
              <<EnemyIn(2, 200, 200, DOWN, k)>>,
              <<BulletIn(216, 238, UP, PlayerId, 1),
                BulletIn(194, 216, RIGHT, PlayerId, 1)>>,
              <<>>, TRUE, FALSE, 1, 1000) :
        k \in {BASIC_TANK, ARMOR_TANK}}

\* an enemy that came in at the spawn point (0, 0) stands there frozen, the
\* next spawn is due in two frames
HeldAtSpawn ==
    {Progress(PlayerIn(32, 64, UP, PLAYER_LIVES, 1),
              <<EnemyIn(2, 0, 0, UP, BASIC_TANK)>>, <<>>, <<>>,
              TRUE, FALSE, 1, ENEMY_SPAWN_DELAY - FrameMs)}

GridScenarios ==
    {Started} \cup Alone \cup BrickAndTank \cup BelowSteel \cup AboveBase
        \cup Duel \cup Thaw \cup Crowd \cup Pickup \cup UnderFire \cup Crossfire
        \cup HeldAtSpawn

InitA ==
    /\ variant = "grid"
    /\ file = Unused
    /\ pc = "idle"
    /\ idx = 1
    /\ ticks = 0
    /\ dead = <<>>
    /\ frame = NoFrame
    /\ obs = NoObs
    /\ struck = <<>>
    /\ game = Unused
    /\ level = Unused
    /\ \E s \in GridScenarios :
          /\ now = s.now
          /\ state = s.state
          /\ current_level = s.current_level
          /\ score = s.score
          /\ tiles = s.tiles
          /\ base_destroyed = s.base_destroyed
          /\ player = s.player
          /\ enemies = s.enemies
          /\ bullets = s.bullets
          /\ explosions = s.explosions
          /\ power_ups = s.power_ups
          /\ made = Len(s.power_ups)
          /\ enemy_spawn_timer = s.enemy_spawn_timer
          /\ enemies_left = s.enemies_left
          /\ enemies_on_screen = s.enemies_on_screen
          /\ enemy_freeze = s.enemy_freeze
          /\ freeze_timer = s.freeze_timer
          /\ next_id = s.next_id

SpecA == InitA /\ [][NextA]_vars

---------------------------------------------------------------------------
(* The frame of the sprite-group game (src/BattleCityNES/main.py,           *)
(* Game.handle_event, Game.update, Level.update).                           *)

\* the layout of a level: the sprites Level._parse_layout creates, and the
\* spawn points Level._create_default_level sets
LayoutWalls ==
    <<NewBrickWall(200, 300), NewSteelWall(100, 300), NewBrickWall(300, 200)>>
LayoutWater == {<<400, 300>>}
LayoutBase == NewBase(240, 448)
LayoutPlayer == <<240, 400>>
LayoutSpawnPoints == {<<0, 0>>, <<240, 0>>, <<480, 0>>}
LayoutEnemyTypes == {1, 2, 3, 4}
LayoutEnemyCount == 10

\* Level.__init__ for the layout
NewLevel ==
    [walls |-> LayoutWalls, water_tiles |-> LayoutWater, base |-> LayoutBase,
     player |-> NesNewPlayer(LayoutPlayer[1], LayoutPlayer[2]),
     enemy_tanks |-> <<>>, bullets |-> <<>>, powerups |-> <<>>,
     effects |-> <<>>, max_enemies |-> LayoutEnemyCount,
     enemies_spawned |-> 0, enemies_destroyed |-> 0, spawn_timer |-> 0]

\* Level.is_completed that counts no destroyed enemy
is_completed_uncounted(L) == Len(L.enemy_tanks) = 0

\* Level.is_completed and Level.is_game_over
is_completed(L) ==
    L.enemies_destroyed >= L.max_enemies /\ Len(L.enemy_tanks) = 0

is_game_over(g, L) == L.base.destroyed \/ g.lives <= 0

\* the game, its level and the history, as they are now
NesWorld ==
    [game |-> game, level |-> level, dead |-> dead, made |-> made, o |-> NoObs]

NesCommit(g) ==
    /\ game' = g.game
    /\ level' = g.level
    /\ dead' = g.dead
    /\ made' = g.made
    /\ obs' = g.o

\* main: a frame starts, Game.update runs the level if the game is played
NesBeginFrame ==
    /\ variant = "nes" /\ pc = "idle" /\ game.state = "PLAYING"
    /\ ticks < MaxTicks
    /\ ticks' = ticks + 1
    /\ pc' = "n_player"
    /\ frame' = NoFrame
    /\ obs' = NoObs
    /\ UNCHANGED <<variant, file, idx, next_id, dead, made, struck, gridVars, nesVars>>

\* Level.update: PlayerTank.update for the arrow key held
NesPlayerStep ==
    /\ variant = "nes" /\ pc = "n_player"
    /\ pc' = "n_enemies"
    /\ idx' = 1
    /\ \E key \in Keys :
          LET p == NesPlayerUpdate(level, key)
              asked == key # "none" /\ level.player.respawn_timer <= 0
          IN /\ level' = [level EXCEPT !.player = p]
             /\ obs' = [NoObs EXCEPT
                          !.step = "player", !.tank = PlayerId,
                          !.asked = asked,
                          !.box = IF asked
                                  THEN <<level.player.x + Sped(p,
                                            StepDx(p.direction, p.speed)),
                                         level.player.y + Sped(p,
                                            StepDy(p.direction, p.speed))>>
                                  ELSE <<0, 0>>,
                          !.moved = (p.x # level.player.x \/ p.y # level.player.y),
                          !.rejected = asked /\ p.x = level.player.x
                                             /\ p.y = level.player.y,
                          !.from = <<level.player.x, level.player.y>>,
                          !.tries = IF asked
                                    THEN <<[box |-> <<level.player.x + Sped(p,
                                                         StepDx(p.direction, p.speed)),
                                                      level.player.y + Sped(p,
                                                         StepDy(p.direction, p.speed))>>,
                                            moved |-> (p.x # level.player.x
                                                          \/ p.y # level.player.y)]>>
                                    ELSE <<>>]
    /\ UNCHANGED <<variant, file, ticks, next_id, dead, made, frame, struck, game, gridVars>>

\* Level.update: EnemyTank.update of the next enemy of the group
NesEnemyStep ==
    /\ variant = "nes" /\ pc = "n_enemies"
    /\ idx <= Len(level.enemy_tanks)
    /\ \E d \in NesEnemyDraws(NesTankUpdate(level.enemy_tanks[idx], level.bullets)) :
          LET e == level.enemy_tanks[idx]
              L == NesEnemyUpdate(level, idx, d)
              e2 == L.enemy_tanks[idx]
              e1dir == IF e.move_timer + 1 >= e.move_duration
                       THEN d.dir1 ELSE e.direction
          IN /\ level' = L
             /\ obs' = [NoObs EXCEPT
                          !.step = "enemy", !.tank = e.id,
                          !.asked = ~e.frozen,
                          !.box = <<e.x + StepDx(e1dir, e.speed),
                                    e.y + StepDy(e1dir, e.speed)>>,
                          !.moved = (e2.x # e.x \/ e2.y # e.y),
                          !.rejected = ~e.frozen /\ e2.x = e.x /\ e2.y = e.y,
                          !.from = <<e.x, e.y>>,
                          !.tries = IF e.frozen THEN <<>>
                                    ELSE <<[box |-> <<e.x + StepDx(e1dir, e.speed),
                                                      e.y + StepDy(e1dir, e.speed)>>,
                                            moved |-> (e2.x # e.x \/ e2.y # e.y)]>>,
                          !.fire = ~e.frozen /\ e.shoot_timer - 1 <= 0,
                          !.cooldown = NesTankUpdate(e, level.bullets).shoot_cooldown,
                          !.shot = Len(L.bullets) > Len(level.bullets)]
    /\ idx' = idx + 1
    /\ UNCHANGED <<variant, file, pc, ticks, next_id, dead, made, frame, struck, game,
                   gridVars>>

NesEnemiesDone ==
    /\ variant = "nes" /\ pc = "n_enemies"
    /\ idx > Len(level.enemy_tanks)
    /\ pc' = "n_move"
    /\ obs' = NoObs
    /\ UNCHANGED <<variant, file, idx, ticks, next_id, dead, made, frame, struck, gridVars,
                   nesVars>>

\* Level.update: every bullet moves, those that left the screen are gone;
\* every power-up blinks, which takes none away; every explosion ages, those
\* that are over are gone
NesMoveStep ==
    /\ variant = "nes" /\ pc = "n_move"
    /\ LET moved == [k \in 1..Len(level.bullets) |-> NesBulletMoved(level.bullets[k])]
           aged == [k \in 1..Len(level.effects) |-> NesExplosionUpdate(level.effects[k])]
           In(b) == ~NesBulletOut(b)
           Live(x) == ~NesExplosionDone(x)
       IN level' = [level EXCEPT !.bullets = SelectSeq(moved, In),
                                 !.powerups = [k \in 1..Len(@) |->
                                                  [@[k] EXCEPT !.age = @ + 1]],
                                 !.effects = SelectSeq(aged, Live)]
    /\ pc' = "n_collide"
    /\ idx' = 1
    /\ obs' = NoObs
    /\ UNCHANGED <<variant, file, ticks, next_id, dead, made, frame, struck, game, gridVars>>

\* Level._handle_bullet_collisions: the next bullet of the list the loop
\* started with
NesCollideStep ==
    /\ variant = "nes" /\ pc = "n_collide"
    /\ idx <= Len(level.bullets)
    /\ \E roll \in {"none", "shield", "freeze", "life"} :
          LET g == NesBulletCollide(NesWorld, idx, roll)
          IN /\ NesCommit(g)
             /\ frame' = FrameAfter(frame, g.o)
    /\ idx' = idx + 1
    /\ UNCHANGED <<variant, file, pc, ticks, next_id, struck, gridVars>>

\* the loop is over: the bullets killed in it are in no group
NesCollideDone ==
    /\ variant = "nes" /\ pc = "n_collide"
    /\ idx > Len(level.bullets)
    /\ LET Alive(b) == b.alive
       IN level' = [level EXCEPT !.bullets = SelectSeq(@, Alive)]
    /\ pc' = "n_powerup"
    /\ obs' = NoObs
    /\ UNCHANGED <<variant, file, idx, ticks, next_id, dead, made, frame, struck, game,
                   gridVars>>

\* Level._handle_powerup_collisions
NesPowerupStep ==
    /\ variant = "nes" /\ pc = "n_powerup"
    /\ LET OnIt(u) == colliderect(RectOf(level.player), RectOf(u))
           k == FirstOf(level.powerups, OnIt)
       IN IF k = 0
          THEN /\ obs' = NoObs
               /\ UNCHANGED <<game, level, dead, made>>
          ELSE NesCommit([add_powerup(NesWorld, level.powerups[k].type) EXCEPT
                             !.level.powerups = RemoveAt(@, k),
                             !.o.step = "power_up",
                             !.o.item = level.powerups[k].id,
                             !.o.picked = TRUE])
    /\ pc' = "n_spawn"
    /\ UNCHANGED <<variant, file, idx, ticks, next_id, frame, struck, gridVars>>

\* Level._spawn_enemies
NesSpawnStep ==
    /\ variant = "nes" /\ pc = "n_spawn"
    /\ pc' = "n_check"
    /\ IF level.enemies_spawned >= level.max_enemies \/ Len(level.enemy_tanks) >= 4
       THEN /\ obs' = [NoObs EXCEPT !.step = "spawn"]
            /\ UNCHANGED <<level, next_id>>
       ELSE IF level.spawn_timer + 1 < 180
       THEN /\ level' = [level EXCEPT !.spawn_timer = @ + 1]
            /\ obs' = [NoObs EXCEPT !.step = "spawn"]
            /\ UNCHANGED next_id
       ELSE \E point \in LayoutSpawnPoints :
            \E type \in LayoutEnemyTypes :
            \E drawn \in {30, 90} :
               /\ level' = [level EXCEPT
                     !.spawn_timer = 0,
                     !.enemy_tanks = Append(@, NesNewEnemy(next_id, point[1],
                                               point[2], type, drawn, drawn)),
                     !.enemies_spawned = @ + 1]
               /\ next_id' = next_id + 1
               /\ obs' = [NoObs EXCEPT !.step = "spawn", !.spawned = 1,
                                       !.tank = next_id, !.tank_type = type]
    /\ UNCHANGED <<variant, file, idx, ticks, dead, made, frame, struck, game, gridVars>>

\* Game.update: level completion is looked at first, game over otherwise
NesCheckStep ==
    /\ variant = "nes" /\ pc = "n_check"
    /\ pc' = "idle"
    /\ game' = IF is_completed(level)
               THEN [game EXCEPT !.state = "LEVEL_COMPLETE", !.score = @ + 1000]
               ELSE IF is_game_over(game, level)
               THEN [game EXCEPT !.state = "GAME_OVER"]
               ELSE game
    /\ obs' = [NoObs EXCEPT !.step = "check",
                            !.won = is_completed(level),
                            !.lost = is_game_over(game, level)]
    /\ UNCHANGED <<variant, file, idx, ticks, next_id, dead, made, frame, struck, level,
                   gridVars>>

\* Game.handle_event while playing: the space bar, PlayerTank.shoot
NesSpaceKey ==
    /\ variant = "nes" /\ pc = "idle" /\ game.state = "PLAYING"
    /\ Len(level.bullets) < MaxBullets
    /\ level' = [level EXCEPT !.player = NesAfterShoot(@),
                              !.bullets = NesBulletsAfterShoot(@, level.player)]
    /\ obs' = [NoObs EXCEPT !.step = "key", !.tank = PlayerId, !.fire = TRUE,
                            !.cooldown = level.player.shoot_cooldown,
                            !.shot = NesCanShoot(level.player)]
    /\ UNCHANGED <<variant, file, pc, idx, ticks, next_id, dead, made, frame, struck, game,
                   gridVars>>

\* Game.handle_event: Escape pauses the game and resumes it
NesEscapeKey ==
    /\ variant = "nes" /\ pc = "idle"
    /\ game.state \in {"PLAYING", "PAUSED"}
    /\ game' = [game EXCEPT !.state = IF @ = "PLAYING" THEN "PAUSED" ELSE "PLAYING"]
    /\ obs' = [NoObs EXCEPT !.step = "key"]
    /\ UNCHANGED <<variant, file, pc, idx, ticks, next_id, dead, made, frame, struck, level,
                   gridVars>>

\* Game.handle_event: Q leaves a paused game for the menu
NesQuitKey ==
    /\ variant = "nes" /\ pc = "idle"
    /\ game.state = "PAUSED"
    /\ game' = [game EXCEPT !.state = "MENU"]
    /\ obs' = [NoObs EXCEPT !.step = "key"]
    /\ UNCHANGED <<variant, file, pc, idx, ticks, next_id, dead, made, frame, struck, level,
                   gridVars>>

\* Game.handle_event: a key on the end screens, once the delay has passed
NesAnyKey ==
    /\ variant = "nes" /\ pc = "idle"
    /\ game.state \in {"GAME_OVER", "VICTORY", "LEVEL_COMPLETE"}
    /\ IF game.state = "LEVEL_COMPLETE"
       THEN IF game.current_level_num + 1 > 3
            THEN /\ game' = [game EXCEPT !.current_level_num = @ + 1,
                                         !.state = "VICTORY"]
                 /\ UNCHANGED level
            ELSE /\ game' = [game EXCEPT !.current_level_num = @ + 1,
                                         !.state = "PLAYING"]
                 /\ level' = NewLevel
       ELSE /\ game' = [game EXCEPT !.state = "MENU"]
            /\ UNCHANGED level
    /\ obs' = [NoObs EXCEPT !.step = "key"]
    /\ UNCHANGED <<variant, file, pc, idx, ticks, next_id, dead, made, frame, struck,
                   gridVars>>

\* Game.start_game, which the menu calls
NesStartGame ==
    /\ variant = "nes" /\ pc = "idle"
    /\ game.state = "MENU"
    /\ game' = [state |-> "PLAYING", current_level_num |-> 1, score |-> 0,
                lives |-> MAX_PLAYER_LIVES]
    /\ level' = NewLevel
    /\ obs' = [NoObs EXCEPT !.step = "start"]
    /\ UNCHANGED <<variant, file, pc, idx, ticks, next_id, dead, made, frame, struck,
                   gridVars>>

NextN ==
    \/ NesBeginFrame
    \/ NesPlayerStep
    \/ NesEnemyStep
    \/ NesEnemiesDone
    \/ NesMoveStep
    \/ NesCollideStep
    \/ NesCollideDone
    \/ NesPowerupStep
    \/ NesSpawnStep
    \/ NesCheckStep
    \/ NesSpaceKey
    \/ NesEscapeKey
    \/ NesQuitKey
    \/ NesAnyKey
    \/ NesStartGame

---------------------------------------------------------------------------
(* The states a behaviour of the sprite-group game starts in: the game      *)
(* right after Game.start_game, and states of a level in progress.          *)

\* the player of a level in progress at (x, y), its last shot `ago` frames ago
NesPlayerIn(x, y, d, ago, shield) ==
    [NesNewPlayer(x, y) EXCEPT
        !.direction = d, !.shield = shield,
        !.shoot_cooldown = IF ago < SHOOT_COOLDOWN THEN SHOOT_COOLDOWN - ago ELSE 0,
        !.nbullets = IF ago < SHOOT_COOLDOWN THEN 1 ELSE 0]

\* an enemy of a level in progress, frozen for `frozen` more frames, `hurt`
\* hits taken, its next shot in `timer` frames; its last shot drew a shoot
\* timer of 30 frames (60 if more than 30 are left) and its bullet is gone
NesEnemyIn(id, x, y, d, type, hurt, frozen, timer) ==
    [NesNewEnemy(id, x, y, type, 90, timer) EXCEPT
        !.direction = d, !.health = @ - hurt,
        !.frozen = frozen > 0, !.frozen_timer = frozen,
        !.shoot_cooldown = IF timer <= SHOOT_COOLDOWN THEN timer
                           ELSE timer - SHOOT_COOLDOWN]

\* a bullet in flight whose rect has its top left corner at (x, y)
NesBulletIn(x, y, d, owner) ==
    [x |-> x, y |-> y, direction |-> d, owner |-> owner, alive |-> TRUE,
     tracked |-> TRUE]

\* a level in progress
NesProgress(p, es, bs, pus, destroyed, timer, lives, num) ==
    [game |-> [state |-> "PLAYING", current_level_num |-> num, score |-> 0,
               lives |-> lives],
     level |-> [NewLevel EXCEPT
                  !.player = p, !.enemy_tanks = es, !.bullets = bs,
                  !.powerups = pus, !.enemies_destroyed = destroyed,
                  !.enemies_spawned = destroyed + Len(es),
                  !.spawn_timer = timer],
     next_id |-> Len(es) + 2]

NesStarted == NesProgress(NesNewPlayer(240, 400), <<>>, <<>>, <<>>, 0, 0,
                          MAX_PLAYER_LIVES, 1)

\* the player next to the base, the steel wall, the water and the border
NesAlone ==
    {NesProgress(NesPlayerIn(xy[1], xy[2], UP, SHOOT_COOLDOWN, 0), <<>>, <<>>,
                 <<>>, 1, 0, MAX_PLAYER_LIVES, 1) :
        xy \in {<<240, 432>>, <<100, 317>>, <<384, 300>>, <<0, 464>>}}

\* a bullet of the player flies up at an enemy of every type that stands
\* right of the brick wall at (200, 300): at x = 208 the bullet will overlap
\* the wall and the enemy, at x = 216 the enemy alone
NesShot ==
    {NesProgress(NesPlayerIn(xth[1], 340, UP, 6, 0),
                 <<NesEnemyIn(2, 216, 300, DOWN, xth[2], xth[3], 200, 50)>>,
                 <<NesBulletIn(xth[1], 316, UP, PlayerId)>>,
                 <<>>, 1, 0, MAX_PLAYER_LIVES, 1) :
        xth \in ({208, 216} \X {1, 2, 4} \X {0}) \cup ({208, 216} \X {3} \X {0, 2})}

\* four enemies shot at the brick wall at (300, 200) from its four sides
NesSiege ==
    {NesProgress(NesPlayerIn(240, 400, UP, SHOOT_COOLDOWN, 0),
                 [k \in 1..4 |-> NesEnemyIn(k + 1, 40 * k, 100, DOWN, 1, 0, 200, 50)],
                 <<NesBulletIn(284, 208, RIGHT, 2), NesBulletIn(316, 192, LEFT, 3),
                   NesBulletIn(296, 184, DOWN, 4), NesBulletIn(304, 216, UP, 5)>>,
                 <<>>, 1, 0, MAX_PLAYER_LIVES, 1)}

\* n enemies in the group and a spawn timer one frame from its end
NesCrowd ==
    {NesProgress(NesPlayerIn(240, 400, UP, SHOOT_COOLDOWN, 0),
                 [k \in 1..n |-> NesEnemyIn(k + 1, 40 * k, 100, DOWN, 1, 0, 200, 50)],
                 <<>>, <<>>, 1, 179, MAX_PLAYER_LIVES, 1) :
        n \in {3, 4}}

\* a bullet of an enemy is about to strike the base; when `last`, a bullet
\* of the player is about to strike the last enemy of the quota
NesAtBase ==
    {NesProgress(NesPlayerIn(216, 340, UP, 6, 0),
                 <<NesEnemyIn(2, 216, 300, DOWN, 1, 0, 200, 50)>>,
                 IF ln[1]
                 THEN <<NesBulletIn(240, 432, DOWN, 2), NesBulletIn(216, 316, UP, PlayerId)>>
                 ELSE <<NesBulletIn(240, 432, DOWN, 2)>>,
                 <<>>, IF ln[1] THEN LayoutEnemyCount - 1 ELSE 1, 0,
                 MAX_PLAYER_LIVES, ln[2]) :
        ln \in BOOLEAN \X {1, 3}}

\* one or two bullets of enemies are about to strike the player
NesUnderFire ==
    {NesProgress(NesPlayerIn(240, 400, UP, SHOOT_COOLDOWN, lns[3]),
                 <<NesEnemyIn(2, 40, 100, DOWN, 1, 0, 200, 50),
                   NesEnemyIn(3, 80, 100, DOWN, 1, 0, 200, 50)>>,
                 IF lns[2] = 2
                 THEN <<NesBulletIn(240, 384, DOWN, 2), NesBulletIn(256, 408, LEFT, 3)>>
                 ELSE <<NesBulletIn(240, 384, DOWN, 2)>>,
                 <<>>, 1, 0, lns[1], 1) :
        lns \in ({1, MAX_PLAYER_LIVES} \X {1, 2} \X {0}) \cup {<<1, 1, 300>>}}

\* an enemy that moves and is about to shoot, a pixel above the player
NesDuel ==
    {NesProgress(NesPlayerIn(240, 400, UP, SHOOT_COOLDOWN, 0),
                 <<NesEnemyIn(2, 240, 383, DOWN, 1, 0, 0, 1)>>,
                 <<>>, <<>>, 1, 0, MAX_PLAYER_LIVES, 1)}

\* the freeze of an enemy and the shield of the player are in their last
\* frame; the enemy is about to shoot
NesThaw ==
    {NesProgress(NesPlayerIn(240, 400, UP, SHOOT_COOLDOWN, 1),
                 <<NesEnemyIn(2, 240, 300, DOWN, 1, 0, 1, 1)>>,
                 <<>>, <<>>, 1, 0, MAX_PLAYER_LIVES, 1)}

\* an enemy frozen a hundred frames ago and an enemy that came into the
\* level since then and is on its way down
NesLateSpawn ==
    {NesProgress(NesPlayerIn(240, 400, UP, SHOOT_COOLDOWN, 0),
                 <<NesEnemyIn(2, 40, 100, DOWN, 1, 0, 200, 50),
                   NesEnemyIn(3, 240, 40, DOWN, 1, 0, 0, 50)>>,
                 <<>>, <<>>, 1, 0, MAX_PLAYER_LIVES, 1)}

\* a power-up of every type under the player, or an old one away from the
\* player; two enemies in the open
NesPickup ==
    {NesProgress(NesPlayerIn(240, 400, UP, SHOOT_COOLDOWN, 0),
                 <<NesEnemyIn(2, 40, 100, RIGHT, 1, 0, 0, 50),
                   NesEnemyIn(3, 80, 200, RIGHT, 3, 0, 0, 50)>>,
                 <<>>, <<u>>, 1, 0, MAX_PLAYER_LIVES, 1) :
        u \in {NesNewPowerUp(1, 244, 404, type) :
                  type \in {"shield", "freeze", "life"}}
               \cup {[NesNewPowerUp(1, 100, 400, "shield") EXCEPT
                        !.age = PowerUpLifespan - 2]}}

\* two bullets of the player are about to strike the same enemy in one
\* frame, one from below and one from above
NesCrossfire ==
    {NesProgress([NesPlayerIn(216, 340, UP, 6, 0) EXCEPT !.nbullets = 2],
                 <<NesEnemyIn(2, 216, 300, DOWN, type, 0, 200, 50)>>,
                 <<NesBulletIn(216, 316, UP, PlayerId),
                   NesBulletIn(216, 284, DOWN, PlayerId)>>,
                 <<>>, 1, 0, MAX_PLAYER_LIVES, 1) :
        type \in {1, 3}}

\* a bullet of an enemy flies up into a bullet of the player that is about
\* to strike the brick wall at (300, 200)
NesCrossing ==
    {NesProgress(NesPlayerIn(240, 400, UP, 6, 0),
                 <<NesEnemyIn(2, 40, 100, DOWN, 1, 0, 200, 50)>>,
                 <<NesBulletIn(272, 218, UP, 2),
                   NesBulletIn(282, 200, RIGHT, PlayerId)>>,
                 <<>>, 1, 0, MAX_PLAYER_LIVES, 1)}

\* an enemy has fired down a column in which another enemy stands frozen
NesColumn ==
    {NesProgress(NesPlayerIn(240, 400, UP, SHOOT_COOLDOWN, 0),
                 <<[NesEnemyIn(2, 100, 100, DOWN, 1, 0, 0, 50)
                       EXCEPT !.nbullets = 1],
                   NesEnemyIn(3, 100, 140, DOWN, 1, 0, 200, 50)>>,
                 <<NesBulletIn(100, 122, DOWN, 2)>>,
                 <<>>, 1, 0, MAX_PLAYER_LIVES, 1)}

\* the player has two bullets in flight; a bullet of an enemy may be about
\* to hit it
NesVolley ==
    {NesProgress([NesPlayerIn(240, 400, UP, 33, 0) EXCEPT !.nbullets = 2],
                 <<NesEnemyIn(2, 40, 100, DOWN, 1, 0, 200, 50)>>,
                 <<NesBulletIn(240, 260, UP, PlayerId),
                   NesBulletIn(240, 140, UP, PlayerId)>> \o incoming,
                 <<>>, 1, 0, MAX_PLAYER_LIVES, 1) :
        incoming \in {<<>>, <<NesBulletIn(240, 384, DOWN, 2)>>}}

\* a bullet of the player about to leave the screen at the top, 104 frames
\* after the shot
NesEdge ==
    {NesProgress([NesPlayerIn(240, 400, UP, 104, 0) EXCEPT !.nbullets = 1],
                 <<NesEnemyIn(2, 40, 100, DOWN, 1, 0, 200, 50)>>,
                 <<NesBulletIn(240, -16, UP, PlayerId)>>,
                 <<>>, 1, 0, MAX_PLAYER_LIVES, 1)}

\* an enemy frozen on the spawn point (0, 0) since it came in, a spawn timer
\* two frames from its end
NesHeldAtSpawn ==
    {NesProgress(NesPlayerIn(240, 400, UP, SHOOT_COOLDOWN, 0),
                 <<NesEnemyIn(2, 0, 0, DOWN, 1, 0, 122, 50)>>,
                 <<>>, <<>>, 1, 178, MAX_PLAYER_LIVES, 1)}

\* an enemy stands frozen on the start position of the player, whom the
\* bullet of another enemy is about to strike
NesAmbush ==
    {NesProgress(NesPlayerIn(216, 340, UP, SHOOT_COOLDOWN, 0),
                 <<NesEnemyIn(2, LayoutPlayer[1], LayoutPlayer[2], UP, 1, 0, 200, 50),
                   [NesEnemyIn(3, 216, 100, DOWN, 1, 0, 0, 50) EXCEPT !.nbullets = 1]>>,
                 <<NesBulletIn(216, 322, DOWN, 3)>>,
                 <<>>, 1, 0, MAX_PLAYER_LIVES, 1)}

\* the player, on the last life, is about to be struck by a bullet of the
\* last enemy of the quota, which a bullet of the player is about to destroy
NesLastStand ==
    {NesProgress([NesPlayerIn(216, 340, UP, 6, 0) EXCEPT !.nbullets = 1],
                 <<[NesEnemyIn(2, 216, 300, DOWN, 1, 0, 200, 50) EXCEPT !.nbullets = 1]>>,
                 <<NesBulletIn(216, 316, UP, PlayerId),
                   NesBulletIn(234, 340, LEFT, 2)>>,
                 <<>>, LayoutEnemyCount - 1, 0, 1, 1)}

NesScenarios ==
    {NesStarted} \cup NesAlone \cup NesShot \cup NesSiege \cup NesCrowd
        \cup NesAtBase \cup NesUnderFire \cup NesDuel \cup NesThaw
        \cup NesLateSpawn \cup NesPickup \cup NesCrossfire \cup NesCrossing
        \cup NesColumn \cup NesVolley \cup NesEdge \cup NesHeldAtSpawn
        \cup NesAmbush \cup NesLastStand

InitN ==
    /\ variant = "nes"
    /\ file = Unused
    /\ pc = "idle"
    /\ idx = 1
    /\ ticks = 0
    /\ dead = <<>>
    /\ frame = NoFrame
    /\ obs = NoObs
    /\ struck = <<>>
    /\ now = Unused
    /\ state = Unused
    /\ current_level = Unused
    /\ score = Unused
    /\ tiles = Unused
    /\ base_destroyed = Unused
    /\ player = Unused
    /\ enemies = Unused
    /\ bullets = Unused
    /\ explosions = Unused
    /\ power_ups = Unused
    /\ enemy_spawn_timer = Unused
    /\ enemies_left = Unused
    /\ enemies_on_screen = Unused
    /\ enemy_freeze = Unused
    /\ freeze_timer = Unused
    /\ \E s \in NesScenarios :
          /\ game = s.game
          /\ level = s.level
          /\ made = Len(s.level.powerups)
          /\ next_id = s.next_id

SpecN == InitN /\ [][NextN]_vars

---------------------------------------------------------------------------
(* The program: a run of either game. *)

Init == InitA \/ InitN

Next == NextA \/ NextN

Spec == Init /\ [][Next]_vars

---------------------------------------------------------------------------
(* The loading of a level (src/level.py, Level.__init__, load_level,        *)
(* _parse_layout and _create_default_level), on its own: a Level is         *)
(* constructed over a level file, and the file is any of LevelFiles.        *)

MaxRows == 2

\* self.player and self.base before a sprite is assigned to them
None == [none |-> TRUE]

\* a row of a layout: sized is whether len() takes it (a string or a list)
Row(row) == [sized |-> TRUE, tiles |-> row]
MalformedRow == [sized |-> FALSE, tiles |-> <<>>]

LayoutRows ==
    {Row(<<>>), Row(<<"B">>), Row(<<"P", "E">>), Row(<<"X", "W">>),
     Row(<<"G", "S">>), Row(<<" ", "B">>), MalformedRow}

Layouts == UNION {[1..n -> LayoutRows] : n \in 0..MaxRows}

\* levels/level<n>.json: found is whether open() finds it, object whether
\* json.load makes a dict of it, keys the keys of that dict, sized whether
\* len() takes the value of "layout"
LevelFile(found, object, keys, sized, layout) ==
    [found |-> found, object |-> object, keys |-> keys, sized |-> sized,
     layout |-> layout, enemy_count |-> 20, enemy_types |-> <<1, 2>>]

LevelKeys == {"layout", "enemy_count", "enemy_types"}

LevelFiles ==
    {LevelFile(FALSE, FALSE, {}, FALSE, <<>>),
     LevelFile(TRUE, FALSE, {}, FALSE, <<>>),
     LevelFile(TRUE, TRUE, LevelKeys \ {"layout"}, FALSE, <<>>),
     LevelFile(TRUE, TRUE, LevelKeys, FALSE, <<>>)}
        \cup {LevelFile(TRUE, TRUE, k, TRUE, l) :
                 k \in {LevelKeys, LevelKeys \ {"enemy_count"},
                        LevelKeys \ {"enemy_types"}},
                 l \in Layouts}

\* Level.__init__ up to the call of load_level
EmptyLevel ==
    [walls |-> <<>>, water_tiles |-> <<>>, bushes |-> <<>>, player |-> None,
     base |-> None, enemy_spawn_points |-> <<>>, enemy_types |-> <<>>,
     max_enemies |-> 0, enemies_spawned |-> 0, enemies_destroyed |-> 0,
     spawn_timer |-> 0]

\* Level._parse_layout, the body of its loops for one tile
ParseTile(L, tile, pos_x, pos_y) ==
    CASE tile = "B" -> [L EXCEPT !.walls = Append(@, NewBrickWall(pos_x, pos_y))]
      [] tile = "S" -> [L EXCEPT !.walls = Append(@, NewSteelWall(pos_x, pos_y))]
      [] tile = "W" -> [L EXCEPT !.water_tiles = Append(@, <<pos_x, pos_y>>)]
      [] tile = "G" -> [L EXCEPT !.bushes = Append(@, <<pos_x, pos_y>>)]
      [] tile = "P" -> [L EXCEPT !.player = NesNewPlayer(pos_x, pos_y)]
      [] tile = "E" ->
            [L EXCEPT !.enemy_spawn_points = Append(@, <<pos_x, pos_y>>)]
      [] tile = "X" -> [L EXCEPT !.base = NewBase(pos_x, pos_y)]
      [] OTHER -> L

\* Level._parse_layout, the loop over x of row y, from column x on
RECURSIVE ParseRow(_, _, _, _, _)
ParseRow(L, row, y, x, cols) ==
    IF x >= cols THEN L
    ELSE IF x >= Len(row.tiles) THEN ParseRow(L, row, y, x + 1, cols)
    ELSE ParseRow(ParseTile(L, row.tiles[x + 1], x * NES_TILE_SIZE,
                            y * NES_TILE_SIZE),
                  row, y, x + 1, cols)

\* Level._parse_layout, the loop over y, from row y on: the level it leaves
\* and whether it raised (len() of a row that has none)
RECURSIVE ParseRows(_, _, _, _)
ParseRows(L, layout, y, cols) ==
    IF y >= Len(layout) THEN [level |-> L, raised |-> FALSE]
    ELSE IF cols > 0 /\ ~layout[y + 1].sized
         THEN [level |-> L, raised |-> TRUE]
    ELSE ParseRows(ParseRow(L, layout[y + 1], y, 0, cols), layout, y + 1, cols)

\* Level._parse_layout
parse_layout(L, f) ==
    IF ~f.sized THEN [level |-> L, raised |-> TRUE]
    ELSE IF Len(f.layout) > 0 /\ ~f.layout[1].sized
         THEN [level |-> L, raised |-> TRUE]
    ELSE ParseRows(L, f.layout, 0,
                   IF Len(f.layout) > 0 THEN Len(f.layout[1].tiles) ELSE 0)

\* the draws of random of Level._create_default_level: the 30 walls, the
\* 10 water tiles and the 10 bushes, each on a tile of the 32 x 26 field
RandomWall(seed, i) ==
    LET x == ((7 * i + 5 * seed) % 32) * NES_TILE_SIZE
        y == ((3 * i + 11 * seed) % 26) * NES_TILE_SIZE
    IN IF (i + seed) % 10 < 7 THEN NewBrickWall(x, y) ELSE NewSteelWall(x, y)

RandomTile(seed, i) ==
    <<((5 * i + 3 * seed) % 32) * NES_TILE_SIZE,
      ((7 * i + seed) % 26) * NES_TILE_SIZE>>

RandomDraws ==
    {[walls |-> [i \in 1..30 |-> RandomWall(seed, i)],
      water |-> [i \in 1..10 |-> RandomTile(seed, i)],
      bushes |-> [i \in 1..10 |-> RandomTile(seed + 1, i + 10)]] :
        seed \in 0..1}

\* Level._create_default_level
create_default_level(L, draw) ==
    [L EXCEPT
        !.base = NewBase(240, 448),
        !.player = NesNewPlayer(240, 400),
        !.walls = @ \o <<NewBrickWall(208, 416), NewBrickWall(224, 416),
                         NewBrickWall(240, 416), NewBrickWall(256, 416),
                         NewBrickWall(208, 432), NewBrickWall(208, 448),
                         NewBrickWall(272, 432), NewBrickWall(272, 448)>>
                    \o draw.walls,
        !.water_tiles = @ \o draw.water,
        !.bushes = @ \o draw.bushes,
        !.enemy_spawn_points = <<<<0, 0>>, <<240, 0>>, <<480, 0>>>>,
        !.max_enemies = 10,
        !.enemy_types = <<1, 1, 1, 2, 2, 3>>]

\* Level.load_level, the try block: the level it leaves and whether it
\* raised
TryLoad(L, f) ==
    IF ~f.found \/ ~f.object \/ "layout" \notin f.keys
    THEN [level |-> L, raised |-> TRUE]
    ELSE LET parsed == parse_layout(L, f)
         IN IF parsed.raised THEN parsed
            ELSE IF "enemy_count" \notin f.keys
                 THEN [level |-> parsed.level, raised |-> TRUE]
            ELSE IF "enemy_types" \notin f.keys
                 THEN [level |-> [parsed.level EXCEPT
                                     !.max_enemies = f.enemy_count],
                       raised |-> TRUE]
            ELSE [level |-> [parsed.level EXCEPT
                                !.max_enemies = f.enemy_count,
                                !.enemy_types = f.enemy_types],
                  raised |-> FALSE]

\* Level.load_level
load_level(L, f, draw) ==
    LET tried == TryLoad(L, f)
    IN IF tried.raised THEN create_default_level(tried.level, draw)
       ELSE tried.level

\* Level(game, level_number): the level is loaded
LoadLevel ==
    /\ variant = "load" /\ pc = "load"
    /\ \E draw \in RandomDraws : level' = load_level(level, file, draw)
    /\ pc' = "loaded"
    /\ obs' = [NoObs EXCEPT !.step = "load"]
    /\ UNCHANGED <<variant, file, idx, ticks, next_id, dead, made, frame,
                   struck, gridVars, game>>

NextLoad == LoadLevel

InitLoad ==
    /\ variant = "load"
    /\ file \in LevelFiles
    /\ pc = "load"
    /\ idx = 1
    /\ ticks = 0
    /\ next_id = 1
    /\ dead = <<>>
    /\ made = 0
    /\ frame = NoFrame
    /\ obs = NoObs
    /\ struck = <<>>
    /\ now = Unused
    /\ state = Unused
    /\ current_level = Unused
    /\ score = Unused
    /\ tiles = Unused
    /\ base_destroyed = Unused
    /\ player = Unused
    /\ enemies = Unused
    /\ bullets = Unused
    /\ explosions = Unused
    /\ power_ups = Unused
    /\ enemy_spawn_timer = Unused
    /\ enemies_left = Unused
    /\ enemies_on_screen = Unused
    /\ enemy_freeze = Unused
    /\ freeze_timer = Unused
    /\ game = Unused
    /\ level = EmptyLevel

SpecLoad == InitLoad /\ [][NextLoad]_vars

---------------------------------------------------------------------------
(* The claims. *)

\* What the claims read of whichever game runs.

\* the base has been destroyed
BaseDown ==
    IF variant = "grid"
    THEN base_destroyed /\ get_tile(tiles, BaseCell[1], BaseCell[2]) # BASE
    ELSE level.base.destroyed

\* the number of the level that is played
LevelNumber == IF variant = "grid" THEN current_level ELSE game.current_level_num

\* the run has ended in the game-over state
GameOverNow ==
    IF variant = "grid" THEN state = GAME_OVER ELSE game.state = "GAME_OVER"

\* the terrain at the place c a bullet step reports: a cell of the grid, or
\* the top left corner of a wall sprite
TerrainAt(c) ==
    IF variant = "grid" THEN get_tile(tiles, c[1], c[2])
    ELSE IF \E k \in 1..Len(level.walls) :
               <<level.walls[k].x, level.walls[k].y>> = c
    THEN level.walls[CHOOSE k \in 1..Len(level.walls) :
                        <<level.walls[k].x, level.walls[k].y>> = c].kind
    ELSE EMPTY

\* the live enemies and the score
LiveEnemies == IF variant = "grid" THEN enemies ELSE level.enemy_tanks
Score == IF variant = "grid" THEN score ELSE game.score

\* the position of the live tank with identity id
TankPosition(id) ==
    IF id = PlayerId
    THEN (IF variant = "grid" THEN <<player.x, player.y>>
          ELSE <<level.player.x, level.player.y>>)
    ELSE LET k == CHOOSE k \in 1..Len(LiveEnemies) : LiveEnemies[k].id = id
         IN <<LiveEnemies[k].x, LiveEnemies[k].y>>

\* C1 (bullet priority): a bullet that in one frame overlaps a Brick cell and
\* a tank that is not its owner resolves the terrain collision only: the
\* step that reports the brick struck reports no tank struck.
C1_BulletPriority ==
    (obs.step = "bullet" /\ obs.terrain = BRICK) => obs.tank = -1

\* C2 (scenario D): once a bullet has hit the base, the base stays destroyed
\* for as long as the level lasts, and the failure test that ends the frame
\* in which the base was hit finds the level failed.
C2_BaseLossPermanent ==
    [][/\ (BaseDown /\ LevelNumber' = LevelNumber /\ obs'.step # "start")
            => BaseDown'
       /\ (obs'.step = "check" /\ frame'.base_struck) => obs'.lost]_vars

\* C3 (terminal loss): a frame in which a bullet hit the base ends in the
\* game-over state, also when the last enemy of the quota was destroyed in
\* that frame.
C3_BaseLossTerminal ==
    (obs.step = "check" /\ frame.base_struck) => GameOverNow

\* C4 (brick hits): a bullet that strikes a brick destroys it exactly when
\* it is the 4th bullet to strike that brick; a normal bullet that strikes
\* steel leaves it in place.
C4_BrickFourHits ==
    /\ (obs.step = "bullet" /\ obs.terrain = BRICK)
          => (obs.gone <=> obs.hits = 4)
    /\ (obs.step = "bullet" /\ obs.terrain = STEEL /\ obs.power < 2)
          => ~obs.gone

\* C5 (scenario B): a bullet that strikes steel is removed; the steel is
\* still there when the bullet had power 1, and has become Empty when it
\* had power 2.
C5_SteelHit ==
    (obs.step = "bullet" /\ obs.terrain = STEEL)
       => /\ obs.removed
          /\ TerrainAt(obs.cell) = (IF obs.power >= 2 THEN EMPTY ELSE STEEL)

\* a bullet of power 2 has struck steel
C5_PowerTwoOnSteel ==
    /\ obs.step = "bullet" /\ obs.terrain = STEEL
    /\ obs.power = 2 /\ obs.removed

\* the candidate box at `box` of the tank with identity self leaves the
\* world, overlaps a solid tile or overlaps the box of another live tank
Obstructed(box, self) ==
    IF variant = "grid"
    THEN LET r == Rect(box[1], box[2], TILE_SIZE, TILE_SIZE)
         IN \/ box[1] < 0 \/ box[1] + Px(TILE_SIZE) > Px(SCREEN_WIDTH)
            \/ box[2] < 0 \/ box[2] + Px(TILE_SIZE) > Px(SCREEN_HEIGHT)
            \/ \E c \in DOMAIN tiles :
                  /\ tiles[c] \in {BRICK, STEEL, WATER, BASE}
                  /\ colliderect(r, TileRect(c[1], c[2]))
            \/ /\ self # PlayerId /\ player.lives > 0
               /\ colliderect(r, TankRect(player))
            \/ \E k \in 1..Len(enemies) :
                  enemies[k].id # self /\ colliderect(r, TankRect(enemies[k]))
    ELSE LET r == SpriteRect(box[1], box[2])
         IN \/ box[1] < 0 \/ box[1] + NES_TILE_SIZE > NES_SCREEN_WIDTH
            \/ box[2] < 0 \/ box[2] + NES_TILE_SIZE > NES_SCREEN_HEIGHT
            \/ \E k \in 1..Len(level.walls) : colliderect(r, RectOf(level.walls[k]))
            \/ \E c \in level.water_tiles : colliderect(r, SpriteRect(c[1], c[2]))
            \/ ~level.base.destroyed /\ colliderect(r, RectOf(level.base))
            \/ self # PlayerId /\ colliderect(r, RectOf(level.player))
            \/ \E k \in 1..Len(level.enemy_tanks) :
                  /\ level.enemy_tanks[k].id # self
                  /\ colliderect(r, RectOf(level.enemy_tanks[k]))

\* C6 (move rejection): every move a tank asks for is rejected exactly when
\* its candidate box is obstructed; a tank whose move was accepted stands at
\* the candidate position, a tank whose moves were all rejected where it was.
C6_MoveRejection ==
    (obs.step \in {"player", "enemy"} /\ Len(obs.tries) > 0)
       => /\ \A k \in 1..Len(obs.tries) :
                obs.tries[k].moved <=> ~Obstructed(obs.tries[k].box, obs.tank)
          /\ TankPosition(obs.tank) =
                (IF obs.tries[Len(obs.tries)].moved
                 THEN obs.tries[Len(obs.tries)].box ELSE obs.from)

\* C7 (scenario E): the live enemies are never more than the concurrency cap.
C7_EnemyCap == Len(LiveEnemies) <= MAX_ENEMIES_ON_SCREEN

\* the spawn step has run with the cap reached, enemies still to come and a
\* spawn timer that elapsed long ago, and it spawned nothing
C7_FullAndDue ==
    /\ variant = "grid"
    /\ obs.step = "spawn" /\ obs.spawned = 0
    /\ Len(enemies) = MAX_ENEMIES_ON_SCREEN
    /\ enemies_left > 0
    /\ now - enemy_spawn_timer > 3 * ENEMY_SPAWN_DELAY

\* the health of the player's tank
PlayerHealth == IF variant = "grid" THEN player.health ELSE level.player.health

\* C8 (health and single kill): no tank has negative health, a live enemy
\* has health left, a destroyed tank was left with health 0 or more, was
\* destroyed once and is not among the live tanks.
C8_HealthAndSingleKill ==
    /\ PlayerHealth >= 0
    /\ \A k \in 1..Len(LiveEnemies) : LiveEnemies[k].health > 0
    /\ \A k \in 1..Len(dead) :
          /\ dead[k].health >= 0
          /\ \A j \in 1..Len(dead) : dead[j].id = dead[k].id => j = k
          /\ \A j \in 1..Len(LiveEnemies) : LiveEnemies[j].id # dead[k].id

\* a bullet has just brought an enemy to health 0 and destroyed it
C8_KilledAtZero ==
    /\ obs.step = "bullet" /\ obs.tank > PlayerId /\ obs.destroyed
    /\ \E k \in 1..Len(dead) : dead[k].id = obs.tank /\ dead[k].health = 0

\* C9 (idempotent kill): no enemy is recorded destroyed twice, and a bullet
\* step adds to the score the points of at most one destruction, which it
\* records.
C9_PointsOnce ==
    [][/\ \A j, k \in 1..Len(dead') : dead'[j].id = dead'[k].id => j = k
       /\ obs'.step = "bullet" =>
             /\ Score' - Score = obs'.points
             /\ Len(dead') - Len(dead) = (IF obs'.points > 0 THEN 1 ELSE 0)]_vars

\* the bullets in flight
BulletsInFlight == IF variant = "grid" THEN bullets ELSE level.bullets

\* the rect of bullet b overlaps the rect the destroyed tank d had
OnTheDead(b, d) ==
    IF variant = "grid"
    THEN colliderect(BulletRect(b), Rect(d.x, d.y, TILE_SIZE, TILE_SIZE))
    ELSE colliderect(RectOf(b), SpriteRect(d.x, d.y))

\* a bullet has passed over the place of an enemy that another bullet
\* destroyed in the same frame: it struck no tank and added no points
C9_SecondBullet ==
    /\ obs.step = "bullet" /\ obs.tank = -1 /\ obs.points = 0
    /\ frame.kills >= 1
    /\ obs.bullet \in 1..Len(BulletsInFlight)
    /\ \E k \in 1..Len(dead) : OnTheDead(BulletsInFlight[obs.bullet], dead[k])

\* the points of the claim for the kinds in their order (Basic 100, Fast
\* 200, Power 300, Armor 400), and the rank of a tank type in that order
KindPoints(rank) == 100 * rank
KindRank(tank_type) == IF variant = "grid" THEN tank_type + 1 ELSE tank_type

\* the explosions that have just appeared hold a large one
LargeExplosion ==
    IF variant = "grid"
    THEN \E k \in 1..Len(explosions) :
            /\ explosions[k].size = "large"
            /\ explosions[k].current_frame = 0 /\ explosions[k].frame_counter = 0
    ELSE \E k \in 1..Len(level.effects) :
            level.effects[k].size = TankBlast /\ level.effects[k].timer = 0

\* C10 as the claim puts it: every enemy that was destroyed, by whatever
\* destroyed it, was awarded the points of its kind.
C10_EveryKillKindPoints ==
    \A k \in 1..Len(dead) :
       dead[k].points = KindPoints(KindRank(dead[k].tank_type))

\* C10 (scenario A and scoring), for enemies struck by bullets: a bullet that
\* destroys an enemy adds exactly the points of its kind to the score and a
\* large explosion appears; a bullet that strikes a basic enemy destroys it;
\* a bullet that strikes an enemy without destroying it adds no points.
C10_BulletKillPoints ==
    [][(obs'.step = "bullet" /\ obs'.tank > PlayerId) =>
          /\ obs'.harmed
          /\ obs'.tank_type = (IF variant = "grid" THEN BASIC_TANK ELSE 1)
                => obs'.destroyed
          /\ Score' - Score = (IF obs'.destroyed
                               THEN KindPoints(KindRank(obs'.tank_type)) ELSE 0)
          /\ obs'.destroyed => LargeExplosion']_vars

\* a bullet of power 1 has destroyed a basic enemy for 100 points
C10_BasicKilled ==
    /\ obs.step = "bullet" /\ obs.destroyed /\ obs.power = 1
    /\ obs.tank_type = (IF variant = "grid" THEN BASIC_TANK ELSE 1)
    /\ obs.tank > PlayerId /\ obs.points = 100
    /\ LargeExplosion


\* the law of the cooldown: a fire action creates no bullet while the
\* cooldown of the tank is not zero (the reload time has not passed, in the grid game), a bullet
\* appears only by such a fire action, and the cooldown counter of a tank
\* falls by exactly one in every update of the tank until it is zero, frozen
\* or not; it changes otherwise only when the tank fires (SHOOT_COOLDOWN)
\* or the player is put back on the start position
RunDown(c) == IF c > 0 THEN c - 1 ELSE 0

PlayerRespawned ==
    obs'.step = "bullet" /\ obs'.tank = PlayerId /\ obs'.harmed

CooldownLaw(reset) ==
       IF variant = "grid"
       THEN /\ Len(bullets') > Len(bullets) => (obs'.fire /\ obs'.cooldown = 0)
            /\ (obs'.fire /\ obs'.cooldown > 0)
                  => (~obs'.shot /\ bullets' = bullets)
       ELSE /\ Len(level'.bullets) > Len(level.bullets)
                  => (obs'.fire /\ obs'.cooldown = 0)
            /\ (obs'.fire /\ obs'.cooldown > 0)
                  => (~obs'.shot /\ level'.bullets = level.bullets)
            /\ obs'.step = "player"
                  => level'.player.shoot_cooldown =
                        RunDown(level.player.shoot_cooldown)
            /\ obs'.step = "enemy"
                  => \A k \in 1..Len(level.enemy_tanks) :
                        level'.enemy_tanks[k].shoot_cooldown =
                           IF k # idx THEN level.enemy_tanks[k].shoot_cooldown
                           ELSE IF obs'.shot THEN SHOOT_COOLDOWN
                           ELSE RunDown(level.enemy_tanks[k].shoot_cooldown)
            /\ (obs'.step \notin {"player", "enemy", "start"}
                   /\ game.state = "PLAYING" /\ ~reset)
                  => /\ level'.player.shoot_cooldown =
                           IF obs'.shot THEN SHOOT_COOLDOWN
                           ELSE level.player.shoot_cooldown
                     /\ \A j \in 1..Len(level.enemy_tanks) :
                        \A k \in 1..Len(level'.enemy_tanks) :
                           level.enemy_tanks[j].id = level'.enemy_tanks[k].id
                              => level.enemy_tanks[j].shoot_cooldown =
                                    level'.enemy_tanks[k].shoot_cooldown

\* C11: a request to fire while the cooldown runs creates no bullet, and the
\* cooldown runs down by one per frame, restarted only by a shot and cleared
\* only by the respawn of the player
C11_FireCooldown == [][CooldownLaw(PlayerRespawned)]_vars

\* C11 as stated: the cooldown changes in no other way, not even when the
\* player is hit
C11_CooldownOnlyRunsDown == [][CooldownLaw(FALSE)]_vars

\* the player asked to fire while the cooldown ran: no bullet
C11_RefusedWhileCooling ==
    /\ variant = "nes" /\ obs.step = "key" /\ obs.fire
    /\ obs.cooldown > 0 /\ ~obs.shot


\* the power-ups in the live collection, their identities, the type of the
\* one with identity id, and the lives of the player
LivePowerUps == IF variant = "grid" THEN power_ups ELSE level.powerups

LiveItems == {LivePowerUps[k].id : k \in 1..Len(LivePowerUps)}

ItemType(id) ==
    LET k == CHOOSE k \in 1..Len(LivePowerUps) : LivePowerUps[k].id = id
    IN IF variant = "grid" THEN LivePowerUps[k].power_type
       ELSE LivePowerUps[k].type

Lives == IF variant = "grid" THEN player.lives ELSE game.lives

\* what the pick-up of the power-up of identity id does, applied once
EffectOnce(id) ==
    IF variant = "grid"
    THEN /\ score' = score + 500
                      + (IF ItemType(id) = GRENADE THEN 100 * Len(enemies) ELSE 0)
         /\ ItemType(id) = SHIELD => (player'.shield /\ player'.shield_timer = now)
         /\ ItemType(id) = FREEZE => (enemy_freeze' /\ freeze_timer' = now)
         /\ player'.lives = player.lives
                              + (IF ItemType(id) = EXTRA_LIFE THEN 1 ELSE 0)
         /\ ItemType(id) = GRENADE => enemies' = <<>>
         /\ ItemType(id) # GRENADE => enemies' = enemies
         /\ ItemType(id) = HELMET
               => (player'.invincible /\ player'.invincible_timer = now)
         /\ player'.level = IF ItemType(id) = STAR /\ player.level < 4
                            THEN player.level + 1 ELSE player.level
    ELSE /\ game'.score = game.score
         /\ ItemType(id) = "shield" => level'.player.shield = POWERUP_DURATION
         /\ ItemType(id) = "freeze"
               => \A k \in 1..Len(level'.enemy_tanks) :
                     /\ level'.enemy_tanks[k].frozen
                     /\ level'.enemy_tanks[k].frozen_timer = FREEZE_DURATION
         /\ game'.lives = game.lives + (IF ItemType(id) = "life" THEN 1 ELSE 0)

\* C12: a power-up is picked up from the live collection, its effect (and,
\* in the grid game, its bonus of 500) is applied once in that step and the
\* power-up leaves the collection; a power-up that left never comes back,
\* and without a pick-up no step adds a life or a bonus
C12_EffectOnceAtPickup ==
    [][/\ \A k \in 1..Len(LivePowerUps') :
             /\ LivePowerUps'[k].id \in LiveItems \/ LivePowerUps'[k].id > made
             /\ \A j \in 1..Len(LivePowerUps') :
                   LivePowerUps'[j].id = LivePowerUps'[k].id => j = k
       /\ obs'.picked => /\ obs'.item \in LiveItems
                         /\ obs'.item \notin LiveItems'
                         /\ EffectOnce(obs'.item)
       /\ (~obs'.picked /\ obs'.step \notin {"start", "check", "key"})
             => /\ Lives' <= Lives
                /\ Score' - Score = (IF obs'.step = "bullet" THEN obs'.points ELSE 0)
      ]_vars

\* the player picked up an extra life and has one life more
C12_LifePicked ==
    /\ obs.step = "power_up" /\ obs.picked
    /\ obs.item \notin LiveItems
    /\ Lives = (IF variant = "grid" THEN PLAYER_LIVES ELSE MAX_PLAYER_LIVES) + 1


\* the updates a live power-up went through
ItemAge(u) == IF variant = "grid" THEN u.counter ELSE u.age

\* C13: no power-up is in the live collection once it went through
\* PowerUpLifespan (600) updates, and the step in which a power-up expires
\* takes it away and changes neither the score nor the player, the lives and
\* the enemies, also when the player stands on it
C13_PowerUpLifetime ==
    [][/\ \A k \in 1..Len(LivePowerUps') :
             ItemAge(LivePowerUps'[k]) < PowerUpLifespan
       /\ (obs'.step = "power_up" /\ obs'.expired)
             => /\ obs'.item \in LiveItems
                /\ obs'.item \notin LiveItems'
                /\ ~obs'.picked
                /\ Score' = Score
                /\ Lives' = Lives
                /\ variant = "grid" => (player' = player /\ enemies' = enemies)
      ]_vars


\* the bullets in flight, and the bullets of enemies among them
LiveBullets == IF variant = "grid" THEN bullets ELSE level.bullets

EnemyBullets ==
    {k \in 1..Len(LiveBullets) : LiveBullets[k].owner # PlayerId}

\* a freeze is on
FreezeOn ==
    IF variant = "grid" THEN enemy_freeze
    ELSE \E k \in 1..Len(level.enemy_tanks) : level.enemy_tanks[k].frozen

\* the enemy with identity id is held by the freeze; when `all`, the freeze
\* holds every enemy
Held(id, all) ==
    IF variant = "grid" \/ all THEN FreezeOn
    ELSE \E k \in 1..Len(level.enemy_tanks) :
            level.enemy_tanks[k].id = id /\ level.enemy_tanks[k].frozen

\* the freeze of a FREEZE power-up: it holds the enemies on the screen for
\* the configured time, a held enemy neither moves nor fires, and an enemy
\* that is not held is updated, moves and fires
FreezeLaw(all) ==
    /\ (obs'.picked /\ ItemType(obs'.item) = (IF variant = "grid" THEN FREEZE ELSE "freeze"))
          => IF variant = "grid"
             THEN enemy_freeze' /\ freeze_timer' = now
             ELSE \A k \in 1..Len(level'.enemy_tanks) :
                     /\ level'.enemy_tanks[k].frozen
                     /\ level'.enemy_tanks[k].frozen_timer = FREEZE_DURATION
    /\ \A j \in 1..Len(LiveEnemies) :
          Held(LiveEnemies[j].id, all)
             => \A k \in 1..Len(LiveEnemies') :
                   LiveEnemies'[k].id = LiveEnemies[j].id
                      => /\ LiveEnemies'[k].x = LiveEnemies[j].x
                         /\ LiveEnemies'[k].y = LiveEnemies[j].y
    /\ (obs'.step = "enemy" /\ Held(obs'.tank, all))
          => /\ ~obs'.moved /\ ~obs'.shot
             /\ Cardinality(EnemyBullets') <= Cardinality(EnemyBullets)
    /\ IF variant = "grid"
       THEN /\ (enemy_freeze /\ ~enemy_freeze')
                  => \/ pc = "enemies" /\ now - freeze_timer > 10000
                     \/ obs'.step \in {"start", "check"}
            /\ (enemy_freeze /\ pc = "enemies" /\ pc' = "bullets"
                  /\ now - freeze_timer > 10000) => ~enemy_freeze'
            /\ (~enemy_freeze /\ pc = "enemies" /\ idx <= Len(enemies))
                  => /\ obs'.step = "enemy" /\ obs'.tank = enemies[idx].id
                     /\ obs'.asked
                     /\ obs'.shot = (obs'.fire /\ obs'.cooldown = 0)
       ELSE /\ \A j \in 1..Len(level.enemy_tanks) :
               \A k \in 1..Len(level'.enemy_tanks) :
                  LET e == level.enemy_tanks[j]
                      e2 == level'.enemy_tanks[k]
                  IN (e.id = e2.id /\ e.frozen /\ ~obs'.picked)
                        => IF obs'.step = "enemy" /\ obs'.tank = e.id
                           THEN /\ e2.frozen_timer = e.frozen_timer - 1
                                /\ e2.frozen = (e2.frozen_timer > 0)
                           ELSE /\ e2.frozen
                                /\ e2.frozen_timer = e.frozen_timer
            /\ (obs'.step = "enemy" /\ ~Held(obs'.tank, FALSE))
                  => /\ obs'.asked
                     /\ obs'.shot = (obs'.fire /\ obs'.cooldown = 0)

\* C14: after the pick-up of a FREEZE power-up every enemy on the screen is
\* frozen for the configured time; while the freeze is on no enemy changes
\* its position or fires; once it ran out every enemy is updated again,
\* moves and fires
C14_FreezeWindow == [][FreezeLaw(TRUE)]_vars


\* the counters of the effects of the player of the sprite-group game
EffectCounters(p) ==
    <<p.invulnerable_timer, p.shield, p.freeze, p.speedup, p.respawn_timer>>

\* every counter of s is zero or more
NoneNegative(s) == \A k \in 1..Len(s) : s[k] >= 0

\* the law of the effect timers. Sprite-group game: no counter is negative;
\* an update of its tank takes one off every counter that is not zero, and
\* a counter changes otherwise only when its effect starts (a pick-up, a
\* respawn) or the level is loaded; an enemy is frozen exactly as long as
\* its counter is not zero. Grid game: the effects are flags with the time
\* they started at, and an effect is off after the first update of the
\* player (of the enemies, for the freeze) that finds its time passed
TimerLaw ==
    IF variant = "grid"
    THEN /\ obs'.step = "player"
               => /\ player'.spawn_protection
                        = (player.spawn_protection /\ now - player.spawn_timer <= 3000)
                  /\ player'.shield
                        = (player.shield /\ now - player.shield_timer <= 10000)
                  /\ player'.invincible
                        = (player.invincible /\ now - player.invincible_timer <= 10000)
         /\ (obs'.step \notin {"player", "start", "check"})
               => /\ player.spawn_protection => player'.spawn_protection
                  /\ player.shield => player'.shield
                  /\ player.invincible => player'.invincible
         /\ (pc = "enemies" /\ pc' = "bullets")
               => enemy_freeze' = (enemy_freeze /\ now - freeze_timer <= 10000)
         /\ (obs'.step \notin {"start", "check"} /\ pc' # "bullets")
               => (enemy_freeze => enemy_freeze')
    ELSE /\ NoneNegative(EffectCounters(level.player))
         /\ NoneNegative(EffectCounters(level'.player))
         /\ \A k \in 1..Len(level'.enemy_tanks) :
               /\ level'.enemy_tanks[k].frozen_timer >= 0
               /\ level'.enemy_tanks[k].frozen = (level'.enemy_tanks[k].frozen_timer > 0)
         /\ obs'.step = "player"
               => EffectCounters(level'.player) =
                     [k \in 1..5 |-> RunDown(EffectCounters(level.player)[k])]
         /\ (obs'.step \notin {"player", "start", "check"})
               => /\ level'.player.freeze =
                        IF obs'.picked /\ ItemType(obs'.item) = "freeze"
                        THEN POWERUP_DURATION ELSE level.player.freeze
                  /\ level'.player.speedup = level.player.speedup
                  /\ level'.player.respawn_timer = level.player.respawn_timer
                  /\ level'.player.shield =
                        IF obs'.picked /\ ItemType(obs'.item) = "shield"
                        THEN POWERUP_DURATION ELSE level.player.shield
                  /\ level'.player.invulnerable_timer =
                        IF PlayerRespawned /\ game'.state = "PLAYING"
                        THEN RESPAWN_INVULNERABLE_TIME
                        ELSE level.player.invulnerable_timer
         /\ \A j \in 1..Len(level.enemy_tanks) :
            \A k \in 1..Len(level'.enemy_tanks) :
               LET e == level.enemy_tanks[j]
                   e2 == level'.enemy_tanks[k]
               IN e.id = e2.id
                     => e2.frozen_timer =
                           IF obs'.step = "enemy" /\ obs'.tank = e.id
                           THEN RunDown(e.frozen_timer)
                           ELSE IF obs'.picked /\ ItemType(obs'.item) = "freeze"
                           THEN FREEZE_DURATION
                           ELSE e.frozen_timer

\* C15: every counter of an effect that lasts (the invulnerability, the
\* shield, the freeze and the speed of the player, the freeze of an enemy)
\* runs down to zero, where the effect is off, and is never negative
C15_EffectTimers == [][TimerLaw]_vars

\* the freeze of an enemy and the shield of the player ran out in this frame
C15_RanOut ==
    /\ variant = "nes" /\ obs.step = "enemy"
    /\ level.player.shield = 0
    /\ \E k \in 1..Len(level.enemy_tanks) :
          /\ level.enemy_tanks[k].id = obs.tank
          /\ ~level.enemy_tanks[k].frozen
          /\ level.enemy_tanks[k].frozen_timer = 0
    /\ ticks = 1 /\ obs.cooldown = 0 /\ ~obs.asked


\* the player is in a window in which hits do not count: a shield, a helmet
\* (invincible), or the protection after a spawn or a respawn
Protected ==
    IF variant = "grid"
    THEN player.invincible \/ player.shield \/ player.spawn_protection
    ELSE level.player.invulnerable_timer > 0 \/ level.player.shield > 0

\* C16: a bullet that hits the player inside such a window leaves the health
\* of the player and the lives as they are, and the bullet is removed
C16_ProtectedHit ==
    [][(obs'.step = "bullet" /\ obs'.tank = PlayerId /\ Protected)
          => /\ ~obs'.harmed /\ ~obs'.destroyed
             /\ Lives' = Lives
             /\ obs'.removed
             /\ IF variant = "grid"
                THEN /\ player' = player
                     /\ Len(bullets') = Len(bullets) - 1
                     /\ state' = state
                ELSE /\ level'.player = level.player
                     /\ ~level'.bullets[obs'.bullet].alive
                     /\ game' = game
      ]_vars

\* a bullet has hit the player under a shield and is gone
C16_ShieldHit ==
    /\ obs.step = "bullet" /\ obs.tank = PlayerId /\ ~obs.harmed /\ obs.removed
    /\ IF variant = "grid" THEN player.shield ELSE level.player.shield > 0


\* the quota of enemies of the level, and the part of it still to spawn
Quota == IF variant = "grid" THEN MAX_ENEMY_COUNT ELSE level.max_enemies

Unspawned ==
    IF variant = "grid" THEN enemies_left
    ELSE level.max_enemies - level.enemies_spawned

\* the enemies of the quota destroyed so far: in the grid game those that
\* were spawned and are on the screen no more
Destroyed ==
    IF variant = "grid" THEN MAX_ENEMY_COUNT - enemies_left - Len(enemies)
    ELSE level.enemies_destroyed

\* the step reports the level complete
ReportsComplete ==
    IF variant = "grid"
    THEN \/ current_level' # current_level
         \/ state' = VICTORY /\ state # VICTORY
         \/ obs'.step = "check" /\ obs'.won
    ELSE \/ game'.state = "LEVEL_COMPLETE" /\ game.state # "LEVEL_COMPLETE"
         \/ obs'.step = "check" /\ obs'.won

\* C17: the level is reported complete only by the check that ends a frame,
\* and only when the enemies destroyed have reached the quota and no enemy
\* is live: never with an enemy on the screen or a part of the quota still
\* to spawn. An enemy leaves the screen only destroyed, by a bullet or by a
\* GRENADE, so the count of the destroyed is the count of those that left
C17_CompleteOnlyWhenCleared ==
    [][/\ (ReportsComplete /\ obs'.step # "start")
             => /\ obs'.step = "check" /\ obs'.won
                /\ Len(LiveEnemies) = 0
                /\ Unspawned = 0
                /\ Destroyed >= Quota
       /\ (obs'.step \notin {"start", "check"} /\ LevelNumber' = LevelNumber)
             => /\ Len(dead') - Len(dead) = Destroyed' - Destroyed
                /\ Unspawned' >= 0
                /\ Destroyed' + Len(LiveEnemies') + Unspawned' = Quota'
      ]_vars

\* the last enemy of the quota is destroyed and the level is reported
\* complete
C17_LevelComplete ==
    /\ obs.step = "check" /\ obs.won
    /\ Len(dead) > 0
    /\ IF variant = "grid" THEN current_level = 2 \/ state = VICTORY
       ELSE game.state = "LEVEL_COMPLETE"


\* the identities of the enemies on the screen
EnemyIds == {LiveEnemies[k].id : k \in 1..Len(LiveEnemies)}

\* C18: the enemies spawned are never more than the quota of the level (the
\* part still to spawn is never negative), and an enemy comes into the level
\* only by a spawn that creates exactly one enemy and advances the count of
\* the spawned (takes one off the enemies left) by exactly one
C18_SpawnWithinQuota ==
    [][(obs'.step \notin {"start", "check"} /\ LevelNumber' = LevelNumber)
          => /\ Unspawned >= 0 /\ Unspawned' >= 0
             /\ (Unspawned' # Unspawned \/ EnemyIds' \ EnemyIds # {}
                   \/ (obs'.step = "spawn" /\ obs'.spawned # 0))
                   => /\ obs'.step = "spawn" /\ obs'.spawned = 1
                      /\ Unspawned > 0
                      /\ Unspawned' = Unspawned - 1
                      /\ EnemyIds' \ EnemyIds = {obs'.tank}
                      /\ Len(LiveEnemies') = Len(LiveEnemies) + 1
                      /\ \A k \in 1..Len(LiveEnemies) :
                            LiveEnemies'[k] = LiveEnemies[k]
      ]_vars

\* a spawn has brought one enemy into the level
C18_OneSpawned ==
    /\ obs.step = "spawn" /\ obs.spawned = 1
    /\ obs.tank \in EnemyIds
    /\ Unspawned >= 0
    /\ Destroyed + Len(LiveEnemies) + Unspawned = Quota


\* the bullets in flight that no collision has taken out, and the small
\* explosions on the screen
LiveCount ==
    IF variant = "grid"
    THEN Cardinality({k \in 1..Len(bullets) : ~bullets[k].to_remove})
    ELSE Cardinality({k \in 1..Len(level.bullets) : level.bullets[k].alive})

SmallBlasts ==
    IF variant = "grid"
    THEN Cardinality({k \in 1..Len(explosions) : explosions[k].size = "small"})
    ELSE Cardinality({k \in 1..Len(level.effects) :
                         level.effects[k].size = BulletBlast})

\* the bullet whose turn it is was taken out by a collision before
TakenOut ==
    IF variant = "grid"
    THEN pc = "bullets" /\ idx <= Len(bullets) /\ bullets[idx].to_remove
    ELSE pc = "n_collide" /\ idx <= Len(level.bullets)
            /\ ~level.bullets[idx].alive

\* C19: the collision of two bullets takes both out of the bullets in
\* flight and adds exactly one small explosion, and it is resolved once: a
\* bullet that was taken out collides with nothing afterwards
C19_PairResolvedOnce ==
    [][/\ (obs'.step = "bullet" /\ obs'.pair)
             => /\ LiveCount' = LiveCount - 2
                /\ SmallBlasts' = SmallBlasts + 1
       /\ TakenOut
             => /\ obs'.tank = -1 /\ obs'.terrain = EMPTY /\ ~obs'.pair
                /\ LiveCount' = LiveCount
                /\ SmallBlasts' = SmallBlasts
      ]_vars


\* the levels Level._create_default_level makes of a level nothing was
\* parsed into
DefaultLevels == {create_default_level(EmptyLevel, d) : d \in RandomDraws}

\* the load of the level fell back to the default level
FellBack == obs'.step = "load" /\ TryLoad(level, file).raised

\* C20: a level whose file is missing or malformed is loaded all the same,
\* and the level loaded is then the default level (one base, one player,
\* three enemy spawn points, a quota of 10), however far the parsing of the
\* file had come when the error was met
C20_FallbackIsDefault ==
    [][FellBack => /\ pc' = "loaded"
                   /\ level'.base = NewBase(240, 448)
                   /\ level'.player = NesNewPlayer(240, 400)
                   /\ Len(level'.enemy_spawn_points) = 3
                   /\ level'.max_enemies = 10
                   /\ level' \in DefaultLevels]_vars

\* the phase of a tick the main loop is in: 1 the input of the player,
\* 2 the enemies, 3 the bullets, 4 the lifetimes of explosions and
\* power-ups, 5 the pickups, 6 the spawning of enemies, 7 the terminal
\* conditions; 0 between two ticks
PhaseOf(at) ==
    CASE at \in {"player", "n_player"} -> 1
      [] at \in {"enemies", "n_enemies"} -> 2
      [] at \in {"bullets", "n_move", "n_collide"} -> 3
      [] at = "explosions" -> 4
      [] at \in {"power_ups", "n_powerup"} -> 5
      [] at \in {"spawn", "n_spawn"} -> 6
      [] at \in {"check", "n_check"} -> 7
      [] OTHER -> 0

\* C21: within a tick the phases run in the order player, enemies, bullets,
\* lifetimes, pickups, spawning, terminal conditions: no step of a tick is
\* followed by a step of an earlier phase of the same tick
C21_PhaseOrder ==
    [][(PhaseOf(pc) # 0 /\ PhaseOf(pc') # 0) => PhaseOf(pc) <= PhaseOf(pc')]_vars

\* what a bullet can harm: the terrain, the base, the tanks and their
\* lives, and the other bullets still in flight
Battlefield ==
    IF variant = "grid"
    THEN [terrain |-> tiles, struck |-> struck, base |-> base_destroyed,
          player |-> <<player.health, player.lives>>,
          enemies |-> [k \in 1..Len(enemies) |->
                          <<enemies[k].id, enemies[k].health>>],
          lost |-> Len(dead)]
    ELSE [terrain |-> level.walls, struck |-> struck,
          base |-> level.base.destroyed,
          player |-> <<level.player.health, game.lives>>,
          enemies |-> [k \in 1..Len(level.enemy_tanks) |->
                          <<level.enemy_tanks[k].id, level.enemy_tanks[k].health>>],
          lost |-> Len(dead)]

\* whether each bullet other than the k-th is still in flight
OthersInFlight(k) ==
    IF variant = "grid"
    THEN [j \in 1..(Len(bullets) - 1) |-> ~RemoveAt(bullets, k)[j].to_remove]
    ELSE [j \in 1..(Len(level.bullets) - 1) |-> RemoveAt(level.bullets, k)[j].alive]

\* the same after the step of the k-th bullet, which the grid game removes
\* from the list if it is flagged
OthersInFlightAfter(k) ==
    IF variant = "grid"
    THEN [j \in 1..Len(bullets') |-> ~bullets'[j].to_remove]
    ELSE [j \in 1..(Len(level'.bullets) - 1) |->
             RemoveAt(level'.bullets, k)[j].alive]

\* C22: a bullet that a collision has consumed (flagged for removal, or
\* killed) has no further effect: its later turns, in the same tick or in
\* the next, leave the terrain, the base, the tanks and the other bullets
\* as they are
C22_ConsumedBulletInert ==
    [][TakenOut => /\ Battlefield' = Battlefield
                   /\ OthersInFlightAfter(idx) = OthersInFlight(idx)]_vars

\* the bullet whose turn it is, where its turn tests it: the grid game moves
\* it first, the sprite-group game has moved it already
BulletAtTest ==
    IF variant = "grid"
    THEN [bullets[idx] EXCEPT !.x = @ + BulletDx(bullets[idx]),
                              !.y = @ + BulletDy(bullets[idx])]
    ELSE level.bullets[idx]

\* it is the turn of a bullet in flight, which is inside the bounds
LiveTurn ==
    IF variant = "grid"
    THEN /\ pc = "bullets" /\ idx <= Len(bullets)
         /\ ~bullets[idx].to_remove
         /\ ~BulletOutOfBounds(BulletAtTest)
    ELSE /\ pc = "n_collide" /\ idx <= Len(level.bullets)
         /\ level.bullets[idx].alive

\* that bullet overlaps another bullet in flight
MeetsBullet ==
    IF variant = "grid"
    THEN \E k \in 1..Len(bullets) :
            /\ k # idx /\ ~bullets[k].to_remove
            /\ colliderect(BulletRect(BulletAtTest), BulletRect(bullets[k]))
    ELSE \E k \in 1..Len(level.bullets) :
            /\ k # idx /\ level.bullets[k].alive
            /\ colliderect(RectOf(BulletAtTest), RectOf(level.bullets[k]))

\* the live tanks other than its owner that the bullet overlaps
TanksMet ==
    IF variant = "grid"
    THEN {t \in {enemies[k].id : k \in 1..Len(enemies)} \cup
                   (IF player.lives > 0 THEN {PlayerId} ELSE {}) :
             /\ t # BulletAtTest.owner
             /\ \/ t = PlayerId
                      /\ colliderect(BulletRect(BulletAtTest), TankRect(player))
                \/ \E k \in 1..Len(enemies) :
                      /\ enemies[k].id = t
                      /\ colliderect(BulletRect(BulletAtTest),
                                     TankRect(enemies[k]))}
    ELSE {t \in {level.enemy_tanks[k].id : k \in 1..Len(level.enemy_tanks)}
                   \cup {PlayerId} :
             /\ t # BulletAtTest.owner
             /\ \/ t = PlayerId
                      /\ colliderect(RectOf(BulletAtTest), RectOf(level.player))
                \/ \E k \in 1..Len(level.enemy_tanks) :
                      /\ level.enemy_tanks[k].id = t
                      /\ colliderect(RectOf(BulletAtTest),
                                     RectOf(level.enemy_tanks[k]))}

\* the tanks and what they have left
TanksLeft == <<Battlefield.player, Battlefield.enemies, Battlefield.lost>>

\* C23: a bullet that hits no terrain and overlaps both another bullet in
\* flight and a tank other than its owner collides with the bullet: the two
\* bullets are out of flight and no tank is harmed
C23_BulletBeforeTank ==
    [][(LiveTurn /\ MeetsBullet /\ TanksMet # {} /\ obs'.terrain = EMPTY)
          => /\ obs'.pair
             /\ LiveCount' = LiveCount - 2
             /\ TanksLeft' = TanksLeft]_vars

\* the bullet whose turn it is meets no terrain and no bullet, and overlaps
\* exactly the live tank t, which is not its owner and not protected
MeetsOnly(t) ==
    /\ LiveTurn /\ ~MeetsBullet /\ obs'.terrain = EMPTY
    /\ TanksMet = {t}
    /\ t = PlayerId => ~Protected

\* C24: a bullet that overlaps a live tank other than its owner harms that
\* tank and is removed, whoever fired it (the player at an enemy, an enemy at
\* the player, an enemy at another enemy), and no bullet harms its owner
C24_BulletHarmsAnyOtherTank ==
    [][/\ LiveTurn =>
             \A t \in TanksMet :
                MeetsOnly(t) => /\ obs'.tank = t /\ obs'.harmed
                                /\ obs'.removed
                                /\ TanksLeft' # TanksLeft
       /\ (LiveTurn /\ obs'.tank # -1) => obs'.tank # BulletAtTest.owner
      ]_vars

\* the bullets in flight that the tank `id` of the sprite-group game fired
InFlightOf(id) ==
    Cardinality({k \in 1..Len(level.bullets) :
                    level.bullets[k].owner = id /\ level.bullets[k].alive})

\* C25: no tank has more bullets in flight than its magazine holds (two for
\* the player, one for a basic enemy), also after the player was hit and
\* has respawned
C25_MagazineLimit ==
    variant = "nes" =>
       /\ InFlightOf(PlayerId) <= TankMaxBullets(level.player.type)
       /\ \A k \in 1..Len(level.enemy_tanks) :
             InFlightOf(level.enemy_tanks[k].id)
                <= TankMaxBullets(level.enemy_tanks[k].type)

\* the time since the spawn timer was reset: ms of the clock in the grid
\* game, ticks counted by Level._spawn_enemies in the sprite-group game
SinceSpawn ==
    IF variant = "grid" THEN now - enemy_spawn_timer ELSE level.spawn_timer

\* a step that brings an enemy into the level
Spawning == obs'.step = "spawn" /\ obs'.spawned > 0

\* the spawn phase of the tick is over
PastSpawn ==
    IF variant = "grid"
    THEN pc \in {"enemies", "bullets", "explosions", "power_ups", "check"}
    ELSE pc = "n_check"

\* C26: a spawn creates one enemy and resets the spawn timer, it happens
\* only when the spawn delay (3000 ms, 180 ticks) has passed since the timer
\* was reset, the timer runs no faster than the ticks, and the spawn phase
\* runs once in a tick: two spawns are at least the delay apart and no tick
\* has two
C26_SpawnsApart ==
    [][/\ Spawning
             => /\ IF variant = "grid"
                   THEN SinceSpawn > ENEMY_SPAWN_DELAY
                   ELSE SinceSpawn + 1 >= 180
                /\ SinceSpawn' = 0
                /\ Len(LiveEnemies') = Len(LiveEnemies) + 1
                /\ obs'.spawned = 1
       /\ ~Spawning
             => /\ EnemyIds' \subseteq EnemyIds
                /\ IF variant = "grid"
                   THEN SinceSpawn' <= SinceSpawn + (now' - now)
                   ELSE SinceSpawn' <= SinceSpawn
                                          + (IF obs'.step = "spawn" THEN 1 ELSE 0)
       /\ obs'.step = "spawn" => ~PastSpawn /\ PastSpawn'
       /\ PastSpawn => (PastSpawn' \/ pc' = "idle")
       /\ (pc = "idle" /\ pc' # "idle")
             => /\ ticks' = ticks + 1
                /\ IF variant = "grid" THEN now' = now + FrameMs ELSE TRUE
      ]_vars

\* an enemy was spawned and the spawn timer starts anew
C26_SpawnedAndReset ==
    /\ obs.step = "spawn" /\ obs.spawned = 1
    /\ SinceSpawn = 0
    /\ PastSpawn

\* where a bullet is and where it flies
Flight(b) == <<b.x, b.y, b.direction, b.owner>>

\* the flight of a bullet one tick later: a step of the bullet speed in its
\* direction
Ahead(b) ==
    IF variant = "grid"
    THEN <<b.x + StepDx(b.direction, Px(BULLET_SPEED)),
           b.y + StepDy(b.direction, Px(BULLET_SPEED)), b.direction, b.owner>>
    ELSE <<b.x + StepDx(b.direction, NES_BULLET_SPEED),
           b.y + StepDy(b.direction, NES_BULLET_SPEED), b.direction, b.owner>>

\* a bullet with the flight f is outside the bounds
Outside(f) ==
    IF variant = "grid"
    THEN BulletOutOfBounds([x |-> f[1], y |-> f[2]])
    ELSE NesBulletOut([x |-> f[1], y |-> f[2]])

\* how far a bullet is from the bound it flies towards (never more than the
\* screen and a tile): what each tick takes a bullet speed off
Remaining(b) ==
    IF variant = "grid"
    THEN CASE b.direction = UP -> b.y
           [] b.direction = DOWN -> Px(SCREEN_HEIGHT) - b.y
           [] b.direction = LEFT -> b.x
           [] OTHER -> Px(SCREEN_WIDTH) - b.x
    ELSE CASE b.direction = UP -> b.y + NES_TILE_SIZE
           [] b.direction = DOWN -> NES_SCREEN_HEIGHT - b.y
           [] b.direction = LEFT -> b.x + NES_TILE_SIZE
           [] OTHER -> NES_SCREEN_WIDTH - b.x

\* the flights of a sequence of bullets
Flights(bs) == [k \in 1..Len(bs) |-> Flight(bs[k])]

\* the bullets of the game that runs
AllBullets == IF variant = "grid" THEN bullets ELSE level.bullets

\* a step of the grid game in which the bullet idx is updated, and the step
\* of the sprite-group game in which every bullet is
GridBulletTurn == variant = "grid" /\ pc = "bullets" /\ idx <= Len(bullets)
NesBulletsMove == variant = "nes" /\ pc = "n_move"

\* C27: a bullet in flight is inside the bounds, every tick moves it one
\* bullet speed on in its direction, so that it comes nearer to the bound it
\* flies towards, and nothing else moves it; the bullet that is outside the
\* bounds after its move is removed at once and has no other effect.  The
\* distance to the bound being finite, no bullet stays in flight for ever
\* while the ticks go on
C27_BulletsLeave ==
    [][/\ \A k \in 1..Len(AllBullets) :
             /\ ~Outside(Flight(AllBullets[k]))
             /\ Remaining(AllBullets[k]) >= 0
       /\ GridBulletTurn
             => LET b == bullets[idx]
                    rest == RemoveAt(bullets, idx)
                IN /\ Outside(Ahead(b))
                         => /\ obs'.removed /\ obs'.expired
                            /\ bullets' = rest
                            /\ Battlefield' = Battlefield
                            /\ explosions' = explosions
                            /\ power_ups' = power_ups
                   /\ obs'.removed
                         => Flights(bullets') = Flights(rest)
                   /\ ~obs'.removed
                         => /\ Flights(RemoveAt(bullets', idx)) = Flights(rest)
                            /\ Flight(bullets'[idx]) = Ahead(b)
                            /\ Remaining(bullets'[idx])
                                  = Remaining(b) - Px(BULLET_SPEED)
       /\ NesBulletsMove
             => LET Stays(k) == ~Outside(Ahead(level.bullets[k]))
                    kept == {k \in 1..Len(level.bullets) : Stays(k)}
                IN /\ Len(level'.bullets) = Cardinality(kept)
                   /\ \A j \in 1..Len(level'.bullets) :
                         \E k \in kept :
                            /\ Flight(level'.bullets[j]) = Ahead(level.bullets[k])
                            /\ Remaining(level'.bullets[j])
                                  = Remaining(level.bullets[k]) - NES_BULLET_SPEED
                            /\ Cardinality({i \in 1..j : TRUE})
                                  = Cardinality({i \in kept : i <= k})
                   /\ Battlefield' = Battlefield
                   /\ Len(level'.effects) <= Len(level.effects)
       /\ (~GridBulletTurn /\ ~NesBulletsMove)
             => \/ AllBullets' = <<>>
                \/ \A j \in 1..Len(AllBullets') :
                      \/ \E k \in 1..Len(AllBullets) :
                            Flight(AllBullets'[j]) = Flight(AllBullets[k])
                      \/ j = Len(AllBullets') /\ obs'.shot
      ]_vars

\* a bullet of the grid game has just left the bounds and is gone
C27_BulletLeftTheField ==
    variant = "grid" /\ obs.step = "bullet" /\ obs.expired /\ obs.removed

\* the update of the next enemy is due
GridEnemyTurn ==
    variant = "grid" /\ pc = "enemies" /\ ~enemy_freeze /\ idx <= Len(enemies)
NesEnemyTurn == variant = "nes" /\ pc = "n_enemies" /\ idx <= Len(level.enemy_tanks)

\* the facings the update of the next enemy can leave it with when all the
\* moves it asks for fail
FacingsOfBlocked ==
    IF variant = "grid"
    THEN LET e == enemies[idx]
         IN {EnemyUpdate(e, d).direction :
                d \in {c \in EnemyDraws(e) :
                          /\ EnemyUpdate(e, c).x = e.x
                          /\ EnemyUpdate(e, c).y = e.y}}
    ELSE LET e == level.enemy_tanks[idx]
             After(d) == NesEnemyUpdate(level, idx, d).enemy_tanks[idx]
         IN IF e.frozen THEN {}
            ELSE {After(d).direction :
                     d \in {c \in NesEnemyDraws(NesTankUpdate(e, level.bullets)) :
                               After(c).x = e.x /\ After(c).y = e.y}}

\* C28: an enemy whose move fails draws a new facing in that tick, whatever
\* its dwell timer says: where the update of an enemy can fail to move it, it
\* can leave the enemy facing any of the four directions
C28_BlockedEnemyReselects ==
    (GridEnemyTurn \/ NesEnemyTurn)
       => FacingsOfBlocked \in {{}, {UP, RIGHT, DOWN, LEFT}}

\* the enemy whose update is due retargets: its dwell has elapsed
Retargeting ==
    GridEnemyTurn /\ now - enemies[idx].move_timer > enemies[idx].move_delay

Sgn(n) == IF n > 0 THEN 1 ELSE IF n < 0 THEN -1 ELSE 0

\* the unit step of a move asked for from the position from
TryStep(try, from) == <<Sgn(try.box[1] - from[1]), Sgn(try.box[2] - from[2])>>

\* the facing of a unit step
FacingOf(step) ==
    CASE step[1] > 0 -> RIGHT
      [] step[1] < 0 -> LEFT
      [] step[2] > 0 -> DOWN
      [] OTHER -> UP

\* the unit steps along the dominant axis towards the target t (the vertical
\* axis when the two distances are equal)
DominantSteps(e, t) ==
    IF Abs(t[1] - e.x) > Abs(t[2] - e.y) THEN {<<Sgn(t[1] - e.x), 0>>}
    ELSE IF t[2] = e.y THEN {<<0, 1>>, <<0, -1>>}
    ELSE {<<0, Sgn(t[2] - e.y)>>}

\* the targets an enemy may choose
Targets == {get_target(aim, rt) : aim \in BOOLEAN, rt \in RandomTargets}

\* C29: a retargeting enemy asks for the move along the dominant axis towards
\* its target first, for a perpendicular move only after that one failed, for
\* the opposite perpendicular move only after both failed, and no more; it
\* stands where the move that succeeded took it, facing that way, or where it
\* was when all three failed; it is never more than one step from where it was
C29_RetargetOrder ==
    [][Retargeting
          => LET e == enemies[idx]
                 from == <<e.x, e.y>>
                 tr == obs'.tries
                 n == Len(tr)
                 e2 == enemies'[idx]
             IN /\ n \in 1..3
                /\ \E t \in Targets : TryStep(tr[1], from) \in DominantSteps(e, t)
                /\ \A k \in 2..n : ~tr[k - 1].moved
                /\ n >= 2 => /\ TryStep(tr[2], from)[1] * TryStep(tr[1], from)[1] = 0
                             /\ TryStep(tr[2], from)[2] * TryStep(tr[1], from)[2] = 0
                /\ n = 3 => /\ TryStep(tr[3], from)[1] = -TryStep(tr[2], from)[1]
                            /\ TryStep(tr[3], from)[2] = -TryStep(tr[2], from)[2]
                /\ \A k \in 1..n :
                      /\ Abs(tr[k].box[1] - e.x) + Abs(tr[k].box[2] - e.y) = e.speed
                /\ tr[n].moved => /\ <<e2.x, e2.y>> = tr[n].box
                                  /\ e2.direction = FacingOf(TryStep(tr[n], from))
                /\ ~tr[n].moved => n = 3 /\ <<e2.x, e2.y>> = from
                /\ Abs(e2.x - e.x) + Abs(e2.y - e.y) <= e.speed
      ]_vars

\* a retargeting enemy whose first move failed has made a perpendicular one
C29_TurnedAside ==
    /\ variant = "grid" /\ obs.step = "enemy"
    /\ Len(obs.tries) >= 2 /\ obs.tries[Len(obs.tries)].moved

\* C30: the lives of the player are never negative, whatever hits the player
\* in one tick
C30_LivesNeverNegative == Lives >= 0

\* the top left corners of the boxes of the live tanks, with their identities
LiveTanks ==
    IF variant = "grid"
    THEN (IF player.lives > 0 THEN {<<PlayerId, player.x, player.y>>} ELSE {})
            \cup {<<enemies[k].id, enemies[k].x, enemies[k].y>> :
                     k \in 1..Len(enemies)}
    ELSE {<<PlayerId, level.player.x, level.player.y>>}
            \cup {<<level.enemy_tanks[k].id, level.enemy_tanks[k].x,
                    level.enemy_tanks[k].y>> : k \in 1..Len(level.enemy_tanks)}

\* the box of a tile side at (x, y) lies inside the world
InsideWorld(x, y) ==
    IF variant = "grid"
    THEN /\ x >= 0 /\ x + Px(TILE_SIZE) <= Px(SCREEN_WIDTH)
         /\ y >= 0 /\ y + Px(TILE_SIZE) <= Px(SCREEN_HEIGHT)
    ELSE /\ x >= 0 /\ x + NES_TILE_SIZE <= NES_SCREEN_WIDTH
         /\ y >= 0 /\ y + NES_TILE_SIZE <= NES_SCREEN_HEIGHT

\* C31: the box of every live tank lies inside the world bounds, the tank
\* just spawned at a spawn point of the level included
C31_TanksInsideWorld ==
    \A t \in LiveTanks : InsideWorld(t[2], t[3])

\* the boxes of two tanks of a tile side at (x1, y1) and (x2, y2) overlap
BoxesOverlap(x1, y1, x2, y2) ==
    IF variant = "grid"
    THEN colliderect(Rect(x1, y1, TILE_SIZE, TILE_SIZE),
                     Rect(x2, y2, TILE_SIZE, TILE_SIZE))
    ELSE colliderect(SpriteRect(x1, y1), SpriteRect(x2, y2))

\* C32: no two live tanks have overlapping boxes, after spawns and respawns
\* as well as after moves
C32_NoTanksOverlap ==
    \A t \in LiveTanks : \A u \in LiveTanks :
       t[1] # u[1] => ~BoxesOverlap(t[2], t[3], u[2], u[3])

\* the enemies spawned so far in the level
Spawned ==
    IF variant = "grid" THEN MAX_ENEMY_COUNT - enemies_left
    ELSE level.enemies_spawned

\* the enemies among the tanks destroyed so far
DeadEnemies == Cardinality({k \in 1..Len(dead) : dead[k].id # PlayerId})

\* the count of the enemies destroyed since the level began, less those
\* destroyed before the first state
DestroyedCount ==
    IF variant = "grid" THEN DeadEnemies ELSE level.enemies_destroyed

\* the counter the cap on the enemies on the screen looks at
OnScreenCounter ==
    IF variant = "grid" THEN enemies_on_screen ELSE Len(level.enemy_tanks)

\* C33: within a level the enemies spawned grow by exactly the growth of the
\* enemies destroyed and of the enemies that are live, the counter of the
\* enemies on the screen is the number of the live enemies and not negative,
\* and in the sprite-group game, which keeps all three counts, the enemies
\* spawned are the enemies destroyed and the live ones
C33_EnemiesConserved ==
    [][/\ (obs'.step \notin {"start", "check"} /\ LevelNumber' = LevelNumber)
             => Spawned' - Spawned
                   = (DestroyedCount' - DestroyedCount)
                        + (Len(LiveEnemies') - Len(LiveEnemies))
       /\ OnScreenCounter = Len(LiveEnemies) /\ OnScreenCounter >= 0
       /\ OnScreenCounter' = Len(LiveEnemies') /\ OnScreenCounter' >= 0
       /\ variant = "nes"
             => /\ level.enemies_spawned
                      = level.enemies_destroyed + Len(level.enemy_tanks)
                /\ level'.enemies_spawned
                      = level'.enemies_destroyed + Len(level'.enemy_tanks)
      ]_vars

\* a bullet has destroyed an enemy while another enemy is live
C33_OneDownOneLive ==
    /\ obs.step = "bullet" /\ obs.destroyed /\ obs.tank > PlayerId
    /\ DeadEnemies >= 1 /\ Len(LiveEnemies) >= 1

\* it is the turn of a bullet, and the tank that fired it
BulletTurn ==
    GridBulletTurn \/ (variant = "nes" /\ pc = "n_collide" /\ idx <= Len(level.bullets))
OwnerAtTurn == BulletsInFlight[idx].owner

\* C34: the score grows in the turn of a bullet only when the bullet is the
\* player's: the bullet of an enemy that destroys an enemy adds no points
C34_PointsForPlayerKillsOnly ==
    [][(BulletTurn /\ OwnerAtTurn # PlayerId)
          => /\ Score' = Score
             /\ obs'.points = 0]_vars

\* the game is at the menu
AtMenu == IF variant = "grid" THEN state = MENU ELSE game.state = "MENU"

\* C35: once the game is over, in the middle of a tick or at its end, it
\* stays over until it goes to the menu: no step takes it from GAME_OVER to
\* any other state
C35_GameOverTerminal ==
    [][GameOverNow => (GameOverNow' \/ AtMenu')]_vars

\* the game is paused
Paused == IF variant = "grid" THEN state = PAUSE ELSE game.state = "PAUSED"

\* what is left of a time of `length` that began at `since`
LeftOf(length, since) ==
    IF now - since > length THEN 0 ELSE length - (now - since)

\* what is left of every timed effect: the freeze of the enemies, the shield,
\* the invincibility and the spawn protection of the player, the spawn delay
\* and the reload of every tank
TimesLeft ==
    IF variant = "grid"
    THEN <<IF enemy_freeze THEN LeftOf(10000, freeze_timer) ELSE 0,
           IF player.shield THEN LeftOf(10000, player.shield_timer) ELSE 0,
           IF player.invincible THEN LeftOf(10000, player.invincible_timer) ELSE 0,
           IF player.spawn_protection THEN LeftOf(3000, player.spawn_timer) ELSE 0,
           LeftOf(ENEMY_SPAWN_DELAY, enemy_spawn_timer),
           ReloadLeft(player),
           [k \in 1..Len(enemies) |-> ReloadLeft(enemies[k])]>>
    ELSE <<[k \in 1..Len(level.enemy_tanks) |-> level.enemy_tanks[k].frozen_timer],
           level.player.shield,
           level.player.invulnerable_timer,
           level.player.respawn_timer,
           level.spawn_timer,
           level.player.shoot_cooldown,
           [k \in 1..Len(level.enemy_tanks) |-> level.enemy_tanks[k].shoot_cooldown]>>

\* the positions, the health, the lives, the score and the counters
Simulation ==
    IF variant = "grid"
    THEN <<[player EXCEPT !.shield_timer = 0, !.invincible_timer = 0,
                          !.spawn_timer = 0, !.last_shot_time = 0],
           [k \in 1..Len(enemies) |->
               [enemies[k] EXCEPT !.last_shot_time = 0, !.move_timer = 0]],
           bullets, explosions, power_ups, tiles, base_destroyed, score,
           enemies_left, enemies_on_screen, current_level>>
    ELSE <<level, game.score, game.lives, game.current_level_num>>

\* C36: while the game is paused nothing of the simulation changes, and what
\* is left of every timed effect is on resume what it was when the pause
\* began
C36_PauseSuspends ==
    [][Paused => /\ Simulation' = Simulation
                 /\ TimesLeft' = TimesLeft]_vars

\* the facing of the player
PlayerFacing == IF variant = "grid" THEN player.direction ELSE level.player.direction

\* C37: a move of the player that is rejected changes nothing about the
\* tank: it faces after the move as it faced before
C37_RejectedMoveKeepsFacing ==
    [][(obs'.step = "player" /\ obs'.rejected)
          => /\ TankPosition(PlayerId)' = TankPosition(PlayerId)
             /\ PlayerFacing' = PlayerFacing]_vars
====
